---- MODULE Spec2Model ----
(***************************************************************************)
(* The persistent workspace state of packages/core local-workspace:        *)
(* localState (state.ts) over a content provider and a quick-access cache. *)
(***************************************************************************)
EXTENDS Integers, Sequences, FiniteSets, TLC

\* ------------------------------------------------------------------ bounds

\* Number of State operations one behaviour issues.
MaxOps == 3

\* ------------------------------------------------------------- the domain

Accounts == {"a", "b"}
ElemIds == {"a.x", "b.y"}
Vals == {"v1", "v2"}
Prefixes == {"p", "q"}
Storages == {"file", "s3"}

\* element.elemID.adapter
Adapter(id) == IF id = "a.x" THEN "a" ELSE "b"

\* the order of element.elemID.getFullName()
IdOrder == <<"a.x", "b.y">>

\* the single path an element's source can have in this model
PathOf(id) == <<Adapter(id), "Records", id>>

\* path.join(path.dirname(prefix), `.tmp_${path.basename(prefix)}`)
TempPrefix(prefix) == IF prefix = "p" THEN ".tmp_p" ELSE ".tmp_q"

AllPrefixes == Prefixes \cup {TempPrefix(p) : p \in Prefixes}

\* a function with an empty domain: no element, no path entry, no file
Empty == [x \in {} |-> x]

Restrict(f, S) == [x \in S |-> f[x]]

\* g's entries over f's: Map.set / setAll, a file written over another
Override(f, g) == [x \in DOMAIN f \cup DOMAIN g |-> IF x \in DOMAIN g THEN g[x] ELSE f[x]]

RECURSIVE SeqToMap(_)
\* remoteMap.setAll of a list of parsed entries: a later entry wins
SeqToMap(s) ==
  IF s = <<>> THEN Empty
  ELSE LET rest == SeqToMap(SubSeq(s, 1, Len(s) - 1))
           last == s[Len(s)]
       IN Override(rest, [x \in {last[1]} |-> last[2]])

\* _.sortBy(entries, id): the entries of map m, by full name
SortedEntries(m) ==
  LET ids == SelectSeq(IdOrder, LAMBDA i : i \in DOMAIN m)
  IN [k \in 1..Len(ids) |-> <<ids[k], m[ids[k]]>>]

\* ------------------------------------------------- hashing and the codec

\* hash.toMD5, taken as collision free: the digest stands for what was hashed
toMD5(x) == [md5 |-> x]

\* content_providers.getHashFromHashes: one digest of the per-file digests,
\* independent of their order
getHashFromHashes(hashes) == [def |-> TRUE, h |-> hashes]

\* saltoMetadata.get('hash') of a cache that records none
NoHash == [def |-> FALSE, h |-> {}]

\* toMD5(safeJsonStringify([]))
EmptyListHash == getHashFromHashes({})

\* createGZipWriteStream / createGunzip
Gzip(text) == [gz |-> text]
Gunzip(content) == content.gz

\* the ids of map m that belong to account acc
IdsOf(m, acc) == {i \in DOMAIN m : Adapter(i) = acc}

\* pathIndex.serializePathIndexByAccount: the entries of each account that
\* has some
serializePathIndexByAccount(pathIndex) ==
  [acc \in {Adapter(i) : i \in DOMAIN pathIndex} |->
     SortedEntries(Restrict(pathIndex, IdsOf(pathIndex, acc)))]

\* the JSON value of a line: an array, a string, or an object (its keys)
JsonArray(items) == [array |-> items]
JsonString(str) == [string |-> str]
JsonObject(keys) == [object |-> keys]

\* _.isPlainObject(value)
isPlainObject(value) == "object" \in DOMAIN value

\* getStateStream(account): the three lines of one account's state file
getStateStream(st, account) ==
  LET accountToPathIndex == serializePathIndexByAccount(st.pathIndex)
  IN <<JsonArray(SortedEntries(Restrict(st.elements, IdsOf(st.elements, account)))),
       JsonString(account),
       JsonArray(IF account \in DOMAIN accountToPathIndex
                 THEN accountToPathIndex[account] ELSE <<>>)>>

\* createStateTextPerAccount: one stream per account that has elements
createStateTextPerAccount(st) ==
  [account \in {Adapter(i) : i \in DOMAIN st.elements} |-> getStateStream(st, account)]

\* calculateContentAndHash: account -> {content, contentHash}
calculateContentAndHash(st) ==
  LET stateTextPerAccount == createStateTextPerAccount(st)
  IN [account \in DOMAIN stateTextPerAccount |->
        LET content == Gzip(stateTextPerAccount[account])
        IN [content |-> content, contentHash |-> toMD5(content)]]

\* contents.map(({ contentHash }) => contentHash)
HashesOf(cs) == {cs[a].contentHash : a \in DOMAIN cs}

\* the order in which the files of a prefix are read
FileOrder == <<"a", "b">>

\* const res: ParsedState, before any line is handled
NoParsedState == [elements |-> <<>>, accounts |-> {}, pathIndices |-> <<>>]

\* mutant: an array on a line after the path index is taken for elements
parseLine_ArraysAreElements(res, key, value) ==
  IF key = 1
  THEN IF isPlainObject(value)
       THEN [res EXCEPT !.accounts = @ \cup value.object]
       ELSE [res EXCEPT !.accounts = @ \cup {value.string}]
  ELSE IF key = 2 THEN [res EXCEPT !.pathIndices = @ \o value.array]
  ELSE IF "array" \in DOMAIN value THEN [res EXCEPT !.elements = @ \o value.array]
  ELSE res

\* the handler of one parsed line: key is the index of the line
parseLine(res, key, value) ==
  IF key = 0 THEN [res EXCEPT !.elements = @ \o value.array]
  ELSE IF key = 1
       THEN IF isPlainObject(value)
            THEN [res EXCEPT !.accounts = @ \cup value.object]
            ELSE [res EXCEPT !.accounts = @ \cup {value.string}]
  ELSE IF key = 2 THEN [res EXCEPT !.pathIndices = @ \o value.array]
  ELSE res

RECURSIVE parseLines(_, _, _)
\* the first n lines of a stream, handled in order
parseLines(res, text, n) ==
  IF n = 0 THEN res ELSE parseLine(parseLines(res, text, n - 1), n - 1, text[n])

RECURSIVE parseStreams(_, _)
\* parseStateContent over the named streams, in order
parseStreams(files, names) ==
  IF names = <<>> THEN NoParsedState
  ELSE LET res == parseStreams(files, SubSeq(names, 1, Len(names) - 1))
           text == Gunzip(files[names[Len(names)]])
       IN parseLines(res, text, Len(text))

parseStateContent(files) ==
  parseStreams(files, SelectSeq(FileOrder, LAMBDA n : n \in DOMAIN files))

\* ---------------------------------------------------------------- state

VARIABLES
  durable,                 \* storage -> prefix -> account file -> content
  cacheStore,              \* the quick-access cache as persisted (remote maps on disk)
  cache,                   \* the quick-access cache as the handle sees it
  loaded,                  \* innerStateData of buildInMemState is set
  dirty,                   \* let dirty
  cacheDirty,              \* let cacheDirty
  contentsAndHash,         \* let contentsAndHash: undefined, rejected or resolved
  currentFilePrefix,       \* let currentFilePrefix
  currentContentProvider,  \* let currentContentProvider (the storage it addresses)
  staticFilesPrefix,       \* the name of the static files store
  pc,                      \* position of the operation in flight, or "idle"
  newProvider,             \* const newProvider of the updateConfig in flight
  contents,                \* const contents of the flush / updateConfig in flight
  log,                     \* provider and cache calls of the current / last operation
  err,                     \* whether the last operation threw
  ops,                     \* operations issued so far
  op,                      \* the operation issued last
  prev,                    \* the operation issued before it, and how it ended
  calculated,              \* history: the calculateHash() calls that returned since the
                           \* last mutation (0, 1, 2 for more), and the digest they left
  pool,                    \* location cache pool: location -> {resource, refcount}
  counters,                \* counters.locationCounters: location -> created, reuse
  held,                    \* the handles each caller got and has not released
  resources,               \* location caches created so far
  calls,                   \* history: the gets and releases of each caller, by location
  codec,                   \* a run of the stream codec: the state serialized, the
                           \* streams written, the streams read and the parse result
  filter,                  \* a call of a hook of the history_tracking filter: its
                           \* argument as given, as it is now, and the hook's position
  handler                  \* a call of removeWeakReferences of the profiles handler:
                           \* the elements and the elements source given, and the result

\* the variables of localState and its stores
stateVars == <<durable, cacheStore, cache, loaded, dirty, cacheDirty, contentsAndHash,
               currentFilePrefix, currentContentProvider, staticFilesPrefix,
               pc, newProvider, contents, log, err, ops, op, prev, calculated>>

\* the variables of the location cache pool
poolVars == <<pool, counters, held, resources, calls>>

\* the variables of a run of the stream codec
codecVars == <<codec>>

\* the variables of a call of the history_tracking filter
filterVars == <<filter>>

\* the variables of a call of the profiles weak references handler
handlerVars == <<handler>>

vars == <<durable, cacheStore, cache, loaded, dirty, cacheDirty, contentsAndHash,
          currentFilePrefix, currentContentProvider, staticFilesPrefix,
          pc, newProvider, contents, log, err, ops, op, prev, calculated,
          pool, counters, held, resources, calls, codec, filter, handler>>

\* ------------------------------------------------- the content provider

\* StateContentProvider.findStateFiles(prefix): the account files under prefix
findStateFiles(d, provider, prefix) == DOMAIN d[provider][prefix]

\* StateContentProvider.getHash(filePaths)
getHash(d, provider, prefix) ==
  getHashFromHashes({toMD5(d[provider][prefix][n]) : n \in findStateFiles(d, provider, prefix)})

\* StateContentProvider.writeContents(prefix, contents): one file per account
\* of contents
writeContents(d, provider, prefix, cs) ==
  [d EXCEPT ![provider][prefix] = Override(@, [a \in DOMAIN cs |-> cs[a].content])]

\* mutant: a clear that also removes what is under the temporary name
providerClear_AlsoTemporary(d, provider, prefix) ==
  [d EXCEPT ![provider][prefix] = Empty, ![provider][TempPrefix(prefix)] = Empty]

\* StateContentProvider.clear(prefix)
providerClear(d, provider, prefix) == [d EXCEPT ![provider][prefix] = Empty]

\* StateContentProvider.rename(oldPrefix, newPrefix)
providerRename(d, provider, oldPrefix, newPrefix) ==
  IF oldPrefix = newPrefix THEN d
  ELSE [d EXCEPT ![provider][newPrefix] = Override(@, d[provider][oldPrefix]),
                 ![provider][oldPrefix] = Empty]

\* ------------------------------------------------------------ the cache

EmptyCache == [elements |-> Empty, pathIndex |-> Empty, accounts |-> {}, hash |-> NoHash]

\* syncQuickAccessStateData: the cache after a reparse of the files under
\* the current prefix
syncQuickAccessStateData(files, newHash) ==
  LET res == parseStateContent(files)
  IN [elements |-> SeqToMap(res.elements),
      pathIndex |-> SeqToMap(res.pathIndices),
      accounts |-> res.accounts,
      hash |-> newHash]

\* mutant: the default for a cache that records no hash is forgotten
quickAccessHash_NoDefault(c) == c.hash

\* saltoMetadata.get('hash') ?? toMD5(safeJsonStringify([]))
quickAccessHash(c) == IF c.hash.def THEN c.hash ELSE EmptyListHash

\* mutant: a reparse that does not mark the cache dirty
loadStateDataFrom_KeepsCacheClean(d) ==
  LET stateFilesHash == getHash(d, currentContentProvider, currentFilePrefix)
  IN IF quickAccessHash(cache) # stateFilesHash
     THEN [cache |-> syncQuickAccessStateData(
                       d[currentContentProvider][currentFilePrefix], stateFilesHash),
           cacheDirty |-> cacheDirty, read |-> TRUE]
     ELSE [cache |-> cache, cacheDirty |-> cacheDirty, read |-> FALSE]

\* loadStateData, seeing durable content d: the cache and cacheDirty after
\* the first access, and whether the state files were read
loadStateDataFrom(d) ==
  LET stateFilesHash == getHash(d, currentContentProvider, currentFilePrefix)
  IN IF quickAccessHash(cache) # stateFilesHash
     THEN [cache |-> syncQuickAccessStateData(
                       d[currentContentProvider][currentFilePrefix], stateFilesHash),
           cacheDirty |-> TRUE, read |-> TRUE]
     ELSE [cache |-> cache, cacheDirty |-> cacheDirty, read |-> FALSE]

loadStateData == loadStateDataFrom(durable)

\* buildInMemState.stateData(): loads on the first access only
stateData ==
  IF loaded THEN [cache |-> cache, cacheDirty |-> cacheDirty, read |-> FALSE]
  ELSE loadStateData

\* -------------------------------------------------- the in-memory state

\* inMemState.set(element)
inMemSet(c, id, v) == [c EXCEPT !.elements = Override(@, [x \in {id} |-> v])]

\* inMemState.remove(id)
inMemRemove(c, id) == [c EXCEPT !.elements = Restrict(@, DOMAIN @ \ {id})]

\* inMemState.updateStateFromChanges({changes, unmergedElements, fetchAccounts}):
\* one addition (v in Vals) or removal (v = "none") of element id, fetched
\* from its account; unmerged tells whether unmergedElements is passed
inMemUpdateStateFromChanges(c, id, v, unmerged) ==
  LET acc == Adapter(id)
      elements == IF v = "none" THEN Restrict(c.elements, DOMAIN c.elements \ {id})
                  ELSE Override(c.elements, [x \in {id} |-> v])
      kept == Restrict(c.pathIndex, DOMAIN c.pathIndex \ IdsOf(c.pathIndex, acc))
      fetched == [x \in IdsOf(elements, acc) |-> PathOf(x)]
  IN [c EXCEPT !.elements = elements,
               !.pathIndex = IF unmerged THEN Override(kept, fetched) ELSE @,
               !.accounts = @ \cup {acc}]

\* inMemState.clear()
inMemClear(c) == EmptyCache

\* inMemState.setHash(newHash)
setHash(c, newHash) == [c EXCEPT !.hash = newHash]

\* setDirty: contentsAndHash = undefined
Undefined == [st |-> "undefined", val |-> Empty]
Rejected == [st |-> "rejected", val |-> Empty]
Resolved(cs) == [st |-> "resolved", val |-> cs]

\* getContentAndHash: the promise kept in contentsAndHash after the call; a
\* new computation (which loads the state) resolves or rejects
getContentAndHash ==
  IF contentsAndHash.st = "undefined"
  THEN {Resolved(calculateContentAndHash(stateData.cache)), Rejected}
  ELSE {contentsAndHash}

\* one logged call
Ev(call, provider, prefix) == [call |-> call, provider |-> provider, prefix |-> prefix]
CacheEv(call) == Ev(call, "cache", "-")
\* the stateConfig an updateConfig was called with
ConfigEv(stateConfig) ==
  Ev("getStateContentProvider", stateConfig.provider,
     IF stateConfig.bucket THEN "bucket" ELSE "-")
LoadEvents ==
  IF loaded THEN <<>>
  ELSE <<Ev("findStateFiles", currentContentProvider, currentFilePrefix),
         Ev("getHash", currentContentProvider, currentFilePrefix)>> \o
       (IF loadStateData.read
        THEN <<Ev("readContents", currentContentProvider, currentFilePrefix)>>
        ELSE <<>>)
\* mutant: an s3 configuration without a bucket is accepted
getStateContentProvider_BucketOptional(stateConfig) ==
  CASE stateConfig.provider = "file" -> [ok |-> TRUE, provider |-> "file"]
    [] stateConfig.provider = "s3" -> [ok |-> TRUE, provider |-> "s3"]
    [] OTHER -> [ok |-> FALSE, provider |-> "none"]

\* getStateContentProvider(workspaceId, stateConfig)
getStateContentProvider(stateConfig) ==
  CASE stateConfig.provider = "file" -> [ok |-> TRUE, provider |-> "file"]
    [] stateConfig.provider = "s3" ->
         IF stateConfig.bucket THEN [ok |-> TRUE, provider |-> "s3"]
         ELSE [ok |-> FALSE, provider |-> "none"]
    [] OTHER -> [ok |-> FALSE, provider |-> "none"]

StateConfigs ==
  {[provider |-> "file", bucket |-> FALSE], [provider |-> "s3", bucket |-> TRUE],
   [provider |-> "s3", bucket |-> FALSE], [provider |-> "gcs", bucket |-> FALSE]}

NotCalculated == [n |-> 0, h |-> NoHash]

\* --------------------------------------------- the location cache pool

\* LOCATION1, LOCATION2
Locations == {"SomeLocation", "SomeOtherLocation"}

\* the logically concurrent users of one pool
Callers == {"c1", "c2"}

\* the capacityHint of pool.get
CapacityHint == 5000

\* counters.locationCounters(location) before any event
NoEvents == [LocationCacheCreated |-> 0, LocationCacheReuse |-> 0]

\* createLocationCachePool(): a pool without entries; no counter has counted
createLocationCachePool ==
  /\ pool = Empty
  /\ counters = [l \in Locations |-> NoEvents]
  /\ held = [c \in Callers |-> <<>>]
  /\ resources = 0
  /\ calls = [c \in Callers |-> [l \in Locations |-> [get |-> 0, release |-> 0]]]

\* no run of the codec has started
CodecIdle == [pc |-> "idle", state |-> [elements |-> Empty, pathIndex |-> Empty],
              streams |-> Empty, read |-> Empty, legacy |-> {}, res |-> NoParsedState]

\* no hook of the filter has been called
FilterIdle == [pc |-> "idle", hook |-> "none", input |-> <<>>, elements |-> <<>>,
               changes |-> <<>>, pending |-> {}, additionalChanges |-> <<>>]

\* removeWeakReferences has not been called
HandlerIdle == [pc |-> "idle", elements |-> <<>>, elementsSource |-> {},
                fixedElements |-> <<>>, errors |-> <<>>]

\* ----------------------------------------------------------------- Init

\* state files a workspace can start with: none, one written by flush, one
\* in the old format (account dictionary and version line)
StateA == [elements |-> [x \in {"a.x"} |-> "v1"], pathIndex |-> [x \in {"a.x"} |-> PathOf(x)],
           accounts |-> {"a"}, hash |-> NoHash]
CurrentFormatFiles == [a \in {"a"} |-> calculateContentAndHash(StateA)[a].content]
OldFormatFiles ==
  [a \in {"a"} |-> Gzip(<<JsonArray(<<<<"a.x", "v1">>>>), JsonObject({"a"}),
                          JsonArray(<<<<"a.x", PathOf("a.x")>>>>), JsonString("0.1.2")>>)]
InitFiles == {Empty, CurrentFormatFiles, OldFormatFiles}

\* the hash of a set of files, as any provider reports it
FilesHash(files) == getHashFromHashes({toMD5(files[n]) : n \in DOMAIN files})

\* caches an earlier session can have persisted: none, or one synced with
\* some state files
InitCaches == {EmptyCache} \cup
  {syncQuickAccessStateData(f, FilesHash(f)) : f \in InitFiles \ {Empty}}

Init ==
  /\ \E f \in InitFiles :
       durable = [s \in Storages |-> [p \in AllPrefixes |->
                    IF s = "file" /\ p = "p" THEN f ELSE Empty]]
  /\ cacheStore \in InitCaches
  /\ cache = cacheStore
  /\ loaded = FALSE
  /\ dirty = FALSE
  /\ cacheDirty = FALSE
  /\ contentsAndHash = Undefined
  /\ currentFilePrefix = "p"
  /\ currentContentProvider = "file"
  /\ staticFilesPrefix = "p"
  /\ pc = "idle"
  /\ newProvider = "file"
  /\ contents = Empty
  /\ log = <<>>
  /\ err = "none"
  /\ ops = 0
  /\ op = "none"
  /\ prev = [op |-> "none", err |-> "none"]
  /\ calculated = NotCalculated
  /\ createLocationCachePool
  /\ codec = CodecIdle
  /\ filter = FilterIdle
  /\ handler = HandlerIdle

\* -------------------------------------------------------------- actions

\* an operation is issued when none is in flight
Issue(name) ==
  /\ pc = "idle" /\ ops < MaxOps /\ ops' = ops + 1 /\ op' = name
  /\ prev' = [op |-> op, err |-> err]
  /\ UNCHANGED <<poolVars, codecVars, filterVars, handlerVars>>

\* a first access by a reader (get, getAll, has, list)
Get ==
  /\ Issue("get")
  /\ cache' = stateData.cache
  /\ cacheDirty' = stateData.cacheDirty
  /\ loaded' = TRUE
  /\ log' = LoadEvents
  /\ err' = "ok"
  /\ UNCHANGED <<durable, cacheStore, dirty, contentsAndHash, currentFilePrefix,
                 currentContentProvider, staticFilesPrefix, pc, newProvider, contents,
                 calculated>>

\* mutant: setDirty() that keeps the memoized contents
Mutate_KeepsContents(c, call) ==
  /\ Issue(call)
  /\ cache' = c
  /\ cacheDirty' = stateData.cacheDirty
  /\ loaded' = TRUE
  /\ dirty' = TRUE
  /\ log' = LoadEvents \o <<CacheEv(call)>>
  /\ err' = "ok"
  /\ calculated' = NotCalculated
  /\ UNCHANGED <<durable, cacheStore, contentsAndHash, currentFilePrefix,
                 currentContentProvider, staticFilesPrefix, pc, newProvider, contents>>

\* what set, remove and updateStateFromChanges share: the cache becomes c,
\* then setDirty()
Mutate(c, call) ==
  /\ Issue(call)
  /\ cache' = c
  /\ cacheDirty' = stateData.cacheDirty
  /\ loaded' = TRUE
  /\ dirty' = TRUE
  /\ contentsAndHash' = Undefined
  /\ log' = LoadEvents \o <<CacheEv(call)>>
  /\ err' = "ok"
  /\ calculated' = NotCalculated
  /\ UNCHANGED <<durable, cacheStore, currentFilePrefix, currentContentProvider,
                 staticFilesPrefix, pc, newProvider, contents>>

\* set(element)
Set == \E id \in ElemIds, v \in Vals : Mutate(inMemSet(stateData.cache, id, v), "set")

\* remove(id)
Remove == \E id \in ElemIds : Mutate(inMemRemove(stateData.cache, id), "remove")

\* updateStateFromChanges({changes, unmergedElements, fetchAccounts})
UpdateStateFromChanges ==
  \E id \in ElemIds, v \in {"v2", "none"}, unmerged \in BOOLEAN :
    Mutate(inMemUpdateStateFromChanges(stateData.cache, id, v, unmerged),
           "updateStateFromChanges")

\* mutant: calculateHash() that recomputes also when not dirty
CalculateHash_IgnoresDirty ==
  /\ Issue("calculateHash")
  /\ IF FALSE
     THEN /\ log' = <<>>
          /\ err' = "ok"
          /\ UNCHANGED <<cache, cacheDirty, loaded, contentsAndHash>>
     ELSE \E promise \in getContentAndHash :
          /\ contentsAndHash' = promise
          /\ cacheDirty' = stateData.cacheDirty
          /\ loaded' = TRUE
          /\ IF promise.st = "resolved"
             THEN /\ cache' = setHash(stateData.cache, getHashFromHashes(HashesOf(promise.val)))
                  /\ log' = LoadEvents \o <<CacheEv("setHash")>>
                  /\ err' = "ok"
             ELSE /\ cache' = stateData.cache
                  /\ log' = LoadEvents
                  /\ err' = "error"
  /\ calculated' = IF err' = "ok" /\ loaded'
                    THEN [n |-> IF calculated.n = 0 THEN 1 ELSE 2, h |-> cache'.hash]
                    ELSE calculated
  /\ UNCHANGED <<durable, cacheStore, dirty, currentFilePrefix, currentContentProvider,
                 staticFilesPrefix, pc, newProvider, contents>>

\* mutant: calculateHash() that also writes the contents it hashed
CalculateHash_WritesContents ==
  /\ Issue("calculateHash")
  /\ IF ~dirty
     THEN /\ log' = <<>>
          /\ err' = "ok"
          /\ UNCHANGED <<durable, cache, cacheDirty, loaded, contentsAndHash>>
     ELSE \E promise \in getContentAndHash :
          /\ contentsAndHash' = promise
          /\ cacheDirty' = stateData.cacheDirty
          /\ loaded' = TRUE
          /\ IF promise.st = "resolved"
             THEN /\ cache' = setHash(stateData.cache, getHashFromHashes(HashesOf(promise.val)))
                  /\ log' = LoadEvents \o <<CacheEv("setHash")>>
                  /\ err' = "ok"
                  /\ durable' = writeContents(durable, currentContentProvider,
                                              currentFilePrefix, promise.val)
             ELSE /\ cache' = stateData.cache
                  /\ log' = LoadEvents
                  /\ err' = "error"
                  /\ durable' = durable
  /\ calculated' = IF err' = "ok" /\ loaded'
                    THEN [n |-> IF calculated.n = 0 THEN 1 ELSE 2, h |-> cache'.hash]
                    ELSE calculated
  /\ UNCHANGED <<cacheStore, dirty, currentFilePrefix, currentContentProvider,
                 staticFilesPrefix, pc, newProvider, contents>>

\* calculateHash()
CalculateHash ==
  /\ Issue("calculateHash")
  /\ IF ~dirty
     THEN /\ log' = <<>>
          /\ err' = "ok"
          /\ UNCHANGED <<cache, cacheDirty, loaded, contentsAndHash>>
     ELSE \E promise \in getContentAndHash :
          /\ contentsAndHash' = promise
          /\ cacheDirty' = stateData.cacheDirty
          /\ loaded' = TRUE
          /\ IF promise.st = "resolved"
             THEN /\ cache' = setHash(stateData.cache, getHashFromHashes(HashesOf(promise.val)))
                  /\ log' = LoadEvents \o <<CacheEv("setHash")>>
                  /\ err' = "ok"
             ELSE /\ cache' = stateData.cache
                  /\ log' = LoadEvents
                  /\ err' = "error"
  /\ calculated' = IF err' = "ok" /\ loaded'
                    THEN [n |-> IF calculated.n = 0 THEN 1 ELSE 2, h |-> cache'.hash]
                    ELSE calculated
  /\ UNCHANGED <<durable, cacheStore, dirty, currentFilePrefix, currentContentProvider,
                 staticFilesPrefix, pc, newProvider, contents>>

\* mutant: the cache is persisted but cacheDirty is not reset
FlushClean_KeepsCacheDirty ==
  /\ IF cacheDirty
     THEN \E ok \in BOOLEAN :
            /\ cacheStore' = IF ok THEN cache ELSE cacheStore
            /\ log' = <<CacheEv("flush")>>
            /\ err' = IF ok THEN "ok" ELSE "error"
     ELSE /\ log' = <<>>
          /\ err' = "ok"
          /\ UNCHANGED cacheStore
  /\ UNCHANGED <<pc, cacheDirty>>

\* flush() when not dirty: persist the cache if cacheDirty (inMemState.flush()
\* succeeds or rejects); return
FlushClean ==
  /\ IF cacheDirty
     THEN \E ok \in BOOLEAN :
            /\ cacheStore' = IF ok THEN cache ELSE cacheStore
            /\ cacheDirty' = ~ok
            /\ log' = <<CacheEv("flush")>>
            /\ err' = IF ok THEN "ok" ELSE "error"
     ELSE /\ log' = <<>>
          /\ err' = "ok"
          /\ UNCHANGED <<cacheStore, cacheDirty>>
  /\ pc' = pc

\* flush(), up to its first await
FlushStart ==
  /\ Issue("flush")
  /\ IF ~dirty
     THEN FlushClean
     ELSE /\ pc' = "flush_content"
          /\ log' = <<Ev("mkdirp", currentContentProvider, currentFilePrefix)>>
          /\ err' = "none"
          /\ UNCHANGED <<cacheStore, cacheDirty>>
  /\ UNCHANGED <<durable, cache, loaded, dirty, contentsAndHash, currentFilePrefix,
                 currentContentProvider, staticFilesPrefix, newProvider, contents,
                 calculated>>

\* const contents = await getContentAndHash(), in flush (next = "flush_write")
\* and in updateConfig (next = "upd_write")
AwaitContent(at, next) ==
  /\ pc = at
  /\ \E promise \in getContentAndHash :
       /\ contentsAndHash' = promise
       /\ cache' = stateData.cache
       /\ cacheDirty' = stateData.cacheDirty
       /\ loaded' = TRUE
       /\ log' = log \o LoadEvents
       /\ IF promise.st = "resolved"
          THEN contents' = promise.val /\ pc' = next /\ err' = err
          ELSE contents' = Empty /\ pc' = "idle" /\ err' = "error"
  /\ UNCHANGED <<durable, cacheStore, dirty, currentFilePrefix, currentContentProvider,
                 staticFilesPrefix, newProvider, ops, op, prev, calculated, poolVars, codecVars, filterVars, handlerVars>>

FlushContent == AwaitContent("flush_content", "flush_write")

\* await currentContentProvider.writeContents(currentFilePrefix, contents)
FlushWrite ==
  /\ pc = "flush_write"
  /\ durable' = writeContents(durable, currentContentProvider, currentFilePrefix, contents)
  /\ log' = Append(log, Ev("writeContents", currentContentProvider, currentFilePrefix))
  /\ pc' = "flush_hash"
  /\ UNCHANGED <<cacheStore, cache, loaded, dirty, cacheDirty, contentsAndHash,
                 currentFilePrefix, currentContentProvider, staticFilesPrefix,
                 newProvider, contents, err, ops, op, prev, calculated, poolVars, codecVars, filterVars, handlerVars>>

\* mutant: the hash recorded is the one the provider reports after the write
FlushSetHash_FromProvider ==
  /\ pc = "flush_hash"
  /\ cache' = setHash(cache, getHash(durable, currentContentProvider, currentFilePrefix))
  /\ log' = Append(log, CacheEv("setHash"))
  /\ pc' = "flush_cache"
  /\ UNCHANGED <<durable, cacheStore, loaded, dirty, cacheDirty, contentsAndHash,
                 currentFilePrefix, currentContentProvider, staticFilesPrefix,
                 newProvider, contents, err, ops, op, prev, calculated, poolVars, codecVars, filterVars, handlerVars>>

\* await inMemState.setHash(updatedHash)
FlushSetHash ==
  /\ pc = "flush_hash"
  /\ cache' = setHash(cache, getHashFromHashes(HashesOf(contents)))
  /\ log' = Append(log, CacheEv("setHash"))
  /\ pc' = "flush_cache"
  /\ UNCHANGED <<durable, cacheStore, loaded, dirty, cacheDirty, contentsAndHash,
                 currentFilePrefix, currentContentProvider, staticFilesPrefix,
                 newProvider, contents, err, ops, op, prev, calculated, poolVars, codecVars, filterVars, handlerVars>>

\* await inMemState.flush(); dirty = false
FlushCache ==
  /\ pc = "flush_cache"
  /\ cacheStore' = cache
  /\ dirty' = FALSE
  /\ log' = Append(log, CacheEv("flush"))
  /\ pc' = "idle"
  /\ contents' = Empty
  /\ err' = "ok"
  /\ UNCHANGED <<durable, cache, loaded, cacheDirty, contentsAndHash,
                 currentFilePrefix, currentContentProvider, staticFilesPrefix,
                 newProvider, ops, op, prev, calculated, poolVars, codecVars, filterVars, handlerVars>>
\* mutant: the prefix is set and dirty marked whether or not the renames
\* succeeded
Rename_IgnoresFailure ==
  /\ Issue("rename")
  /\ \E newPrefix \in Prefixes \ {currentFilePrefix}, staticOk \in BOOLEAN, providerOk \in BOOLEAN :
       /\ staticFilesPrefix' = IF staticOk THEN newPrefix ELSE staticFilesPrefix
       /\ durable' = IF providerOk
                     THEN providerRename(durable, currentContentProvider, currentFilePrefix, newPrefix)
                     ELSE durable
       /\ log' = <<Ev("staticFiles.rename", "static", newPrefix),
                   Ev("rename", currentContentProvider, currentFilePrefix)>>
       /\ currentFilePrefix' = newPrefix
       /\ dirty' = TRUE
       /\ contentsAndHash' = Undefined
       /\ err' = IF staticOk /\ providerOk THEN "ok" ELSE "error"
  /\ calculated' = NotCalculated
  /\ UNCHANGED <<cacheStore, cache, loaded, cacheDirty, currentContentProvider,
                 pc, newProvider, contents>>

\* rename(newPrefix): both renames are started; each succeeds or fails
Rename ==
  /\ Issue("rename")
  /\ \E newPrefix \in Prefixes \ {currentFilePrefix}, staticOk \in BOOLEAN, providerOk \in BOOLEAN :
       /\ staticFilesPrefix' = IF staticOk THEN newPrefix ELSE staticFilesPrefix
       /\ durable' = IF providerOk
                     THEN providerRename(durable, currentContentProvider, currentFilePrefix, newPrefix)
                     ELSE durable
       /\ log' = <<Ev("staticFiles.rename", "static", newPrefix),
                   Ev("rename", currentContentProvider, currentFilePrefix)>>
       /\ IF staticOk /\ providerOk
          THEN /\ currentFilePrefix' = newPrefix
               /\ dirty' = TRUE
               /\ contentsAndHash' = Undefined
               /\ err' = "ok"
          ELSE /\ err' = "error"
               /\ UNCHANGED <<currentFilePrefix, dirty, contentsAndHash>>
  /\ calculated' = NotCalculated
  /\ UNCHANGED <<cacheStore, cache, loaded, cacheDirty, currentContentProvider,
                 pc, newProvider, contents>>
\* mutant: clear() that clears the provider only
Clear_KeepsCache ==
  /\ Issue("clear")
  /\ \E providerFirst \in (IF loaded THEN {TRUE} ELSE BOOLEAN) :
       LET cleared == providerClear(durable, currentContentProvider, currentFilePrefix)
           ld == IF loaded THEN stateData
                 ELSE loadStateDataFrom(IF providerFirst THEN cleared ELSE durable)
       IN /\ durable' = cleared
          /\ cache' = ld.cache
          /\ cacheDirty' = ld.cacheDirty
          /\ log' = <<Ev("clear", currentContentProvider, currentFilePrefix)>> \o
                    (IF loaded THEN <<>>
                     ELSE <<Ev("findStateFiles", currentContentProvider, currentFilePrefix),
                            Ev("getHash", currentContentProvider, currentFilePrefix)>>) \o
                    (IF ld.read
                     THEN <<Ev("readContents", currentContentProvider, currentFilePrefix)>>
                     ELSE <<>>) \o
                    <<CacheEv("clear")>>
  /\ loaded' = TRUE
  /\ dirty' = TRUE
  /\ contentsAndHash' = Undefined
  /\ err' = "ok"
  /\ calculated' = NotCalculated
  /\ UNCHANGED <<cacheStore, currentFilePrefix, currentContentProvider, staticFilesPrefix,
                 pc, newProvider, contents>>

\* mutant: clear() that keeps the memoized contents
Clear_KeepsContents ==
  /\ Issue("clear")
  /\ \E providerFirst \in (IF loaded THEN {TRUE} ELSE BOOLEAN) :
       LET cleared == providerClear(durable, currentContentProvider, currentFilePrefix)
           ld == IF loaded THEN stateData
                 ELSE loadStateDataFrom(IF providerFirst THEN cleared ELSE durable)
       IN /\ durable' = cleared
          /\ cache' = inMemClear(ld.cache)
          /\ cacheDirty' = ld.cacheDirty
          /\ log' = <<Ev("clear", currentContentProvider, currentFilePrefix)>> \o
                    (IF loaded THEN <<>>
                     ELSE <<Ev("findStateFiles", currentContentProvider, currentFilePrefix),
                            Ev("getHash", currentContentProvider, currentFilePrefix)>>) \o
                    (IF ld.read
                     THEN <<Ev("readContents", currentContentProvider, currentFilePrefix)>>
                     ELSE <<>>) \o
                    <<CacheEv("clear")>>
  /\ loaded' = TRUE
  /\ dirty' = TRUE
  /\ err' = "ok"
  /\ calculated' = NotCalculated
  /\ UNCHANGED <<cacheStore, currentFilePrefix, currentContentProvider, staticFilesPrefix,
                 pc, newProvider, contents, contentsAndHash>>

\* clear(): the provider's clear and inMemState.clear() run together; a
\* first access inside inMemState.clear() sees the files before or after the
\* provider removed them
Clear ==
  /\ Issue("clear")
  /\ \E providerFirst \in (IF loaded THEN {TRUE} ELSE BOOLEAN) :
       LET cleared == providerClear(durable, currentContentProvider, currentFilePrefix)
           ld == IF loaded THEN stateData
                 ELSE loadStateDataFrom(IF providerFirst THEN cleared ELSE durable)
       IN /\ durable' = cleared
          /\ cache' = inMemClear(ld.cache)
          /\ cacheDirty' = ld.cacheDirty
          /\ log' = <<Ev("clear", currentContentProvider, currentFilePrefix)>> \o
                    (IF loaded THEN <<>>
                     ELSE <<Ev("findStateFiles", currentContentProvider, currentFilePrefix),
                            Ev("getHash", currentContentProvider, currentFilePrefix)>>) \o
                    (IF ld.read
                     THEN <<Ev("readContents", currentContentProvider, currentFilePrefix)>>
                     ELSE <<>>) \o
                    <<CacheEv("clear")>>
  /\ loaded' = TRUE
  /\ dirty' = TRUE
  /\ contentsAndHash' = Undefined
  /\ err' = "ok"
  /\ calculated' = NotCalculated
  /\ UNCHANGED <<cacheStore, currentFilePrefix, currentContentProvider, staticFilesPrefix,
                 pc, newProvider, contents>>

\* updateConfig(args): const newProvider = getStateContentProvider(...)
UpdateConfigStart ==
  /\ Issue("updateConfig")
  /\ \E stateConfig \in StateConfigs :
       LET res == getStateContentProvider(stateConfig)
       IN /\ IF res.ok
             THEN newProvider' = res.provider /\ pc' = "upd_content" /\ err' = "none"
             ELSE newProvider' = newProvider /\ pc' = pc /\ err' = "error"
          /\ log' = <<ConfigEv(stateConfig)>>
  /\ UNCHANGED <<durable, cacheStore, cache, loaded, dirty, cacheDirty, contentsAndHash,
                 currentFilePrefix, currentContentProvider, staticFilesPrefix, contents,
                 calculated>>

\* mutant: the old provider is cleared without the new one being written
UpdateConfigContent_ClearsFirst == AwaitContent("upd_content", "upd_clear")

UpdateConfigContent == AwaitContent("upd_content", "upd_write")
\* mutant: the new provider writes under the current prefix, not a temporary one
UpdateConfigWrite_NoTempPrefix ==
  /\ pc = "upd_write"
  /\ durable' = writeContents(durable, newProvider, currentFilePrefix, contents)
  /\ log' = Append(log, Ev("writeContents", newProvider, currentFilePrefix))
  /\ pc' = "upd_clear"
  /\ UNCHANGED <<cacheStore, cache, loaded, dirty, cacheDirty, contentsAndHash,
                 currentFilePrefix, currentContentProvider, staticFilesPrefix,
                 newProvider, contents, err, ops, op, prev, calculated, poolVars, codecVars, filterVars, handlerVars>>

\* await newProvider.writeContents(tempPrefix, contents)
UpdateConfigWrite ==
  /\ pc = "upd_write"
  /\ durable' = writeContents(durable, newProvider, TempPrefix(currentFilePrefix), contents)
  /\ log' = Append(log, Ev("writeContents", newProvider, TempPrefix(currentFilePrefix)))
  /\ pc' = "upd_clear"
  /\ UNCHANGED <<cacheStore, cache, loaded, dirty, cacheDirty, contentsAndHash,
                 currentFilePrefix, currentContentProvider, staticFilesPrefix,
                 newProvider, contents, err, ops, op, prev, calculated, poolVars, codecVars, filterVars, handlerVars>>

\* await currentContentProvider.clear(currentFilePrefix)
UpdateConfigClear ==
  /\ pc = "upd_clear"
  /\ durable' = providerClear(durable, currentContentProvider, currentFilePrefix)
  /\ log' = Append(log, Ev("clear", currentContentProvider, currentFilePrefix))
  /\ pc' = "upd_rename"
  /\ UNCHANGED <<cacheStore, cache, loaded, dirty, cacheDirty, contentsAndHash,
                 currentFilePrefix, currentContentProvider, staticFilesPrefix,
                 newProvider, contents, err, ops, op, prev, calculated, poolVars, codecVars, filterVars, handlerVars>>

\* await newProvider.rename(tempPrefix, path.basename(currentFilePrefix))
UpdateConfigRename ==
  /\ pc = "upd_rename"
  /\ durable' = providerRename(durable, newProvider, TempPrefix(currentFilePrefix),
                               currentFilePrefix)
  /\ log' = Append(log, Ev("rename", newProvider, TempPrefix(currentFilePrefix)))
  /\ pc' = "upd_swap"
  /\ UNCHANGED <<cacheStore, cache, loaded, dirty, cacheDirty, contentsAndHash,
                 currentFilePrefix, currentContentProvider, staticFilesPrefix,
                 newProvider, contents, err, ops, op, prev, calculated, poolVars, codecVars, filterVars, handlerVars>>
\* mutant: the migration ends without the provider reference being replaced
UpdateConfigSwap_KeepsProvider ==
  /\ pc = "upd_swap"
  /\ currentContentProvider' = currentContentProvider
  /\ log' = Append(log, Ev("swap", newProvider, currentFilePrefix))
  /\ pc' = "idle"
  /\ contents' = Empty
  /\ err' \in {"ok", "error"}
  /\ UNCHANGED <<durable, cacheStore, cache, loaded, dirty, cacheDirty, contentsAndHash,
                 currentFilePrefix, staticFilesPrefix, newProvider, ops, op, prev, calculated, poolVars, codecVars, filterVars, handlerVars>>

\* mutant: the migration ends with dirty reset
UpdateConfigSwap_ClearsDirty ==
  /\ pc = "upd_swap"
  /\ currentContentProvider' = newProvider
  /\ log' = Append(log, Ev("swap", newProvider, currentFilePrefix))
  /\ pc' = "idle"
  /\ contents' = Empty
  /\ dirty' = FALSE
  /\ err' \in {"ok", "error"}
  /\ UNCHANGED <<durable, cacheStore, cache, loaded, cacheDirty, contentsAndHash,
                 currentFilePrefix, staticFilesPrefix, newProvider, ops, op, prev, calculated, poolVars, codecVars, filterVars, handlerVars>>

\* currentContentProvider = newProvider; await inMemState.updateConfig(args),
\* which resolves or rejects
UpdateConfigSwap ==
  /\ pc = "upd_swap"
  /\ currentContentProvider' = newProvider
  /\ log' = Append(log, Ev("swap", newProvider, currentFilePrefix))
  /\ pc' = "idle"
  /\ contents' = Empty
  /\ err' \in {"ok", "error"}
  /\ UNCHANGED <<durable, cacheStore, cache, loaded, dirty, cacheDirty, contentsAndHash,
                 currentFilePrefix, staticFilesPrefix, newProvider, ops, op, prev, calculated, poolVars, codecVars, filterVars, handlerVars>>

\* the awaited call of the operation in flight rejects: the operation throws
AwaitedCalls == {"flush_write", "flush_hash", "flush_cache", "upd_write", "upd_clear",
                 "upd_rename"}

\* mutant: a failing operation resets dirty on its way out
Fail_ClearsDirty ==
  /\ pc \in AwaitedCalls
  /\ pc' = "idle"
  /\ contents' = Empty
  /\ err' = "error"
  /\ dirty' = FALSE
  /\ UNCHANGED <<durable, cacheStore, cache, loaded, cacheDirty, contentsAndHash,
                 currentFilePrefix, currentContentProvider, staticFilesPrefix,
                 newProvider, log, ops, op, prev, calculated, poolVars, codecVars, filterVars, handlerVars>>

Fail ==
  /\ pc \in AwaitedCalls
  /\ pc' = "idle"
  /\ contents' = Empty
  /\ err' = "error"
  /\ UNCHANGED <<durable, cacheStore, cache, loaded, dirty, cacheDirty, contentsAndHash,
                 currentFilePrefix, currentContentProvider, staticFilesPrefix,
                 newProvider, log, ops, op, prev, calculated, poolVars, codecVars, filterVars, handlerVars>>

\* the process ends and a new handle is built over what was persisted:
\* localState(currentFilePrefix, ..., currentContentProvider)
Restart ==
  /\ Issue("restart")
  /\ cache' = cacheStore
  /\ loaded' = FALSE
  /\ dirty' = FALSE
  /\ cacheDirty' = FALSE
  /\ contentsAndHash' = Undefined
  /\ log' = <<>>
  /\ err' = "none"
  /\ calculated' = NotCalculated
  /\ UNCHANGED <<durable, cacheStore, currentFilePrefix, currentContentProvider,
                 staticFilesPrefix, pc, newProvider, contents>>

Next ==
  \/ Get
  \/ Set
  \/ Remove
  \/ UpdateStateFromChanges
  \/ CalculateHash
  \/ FlushStart
  \/ FlushContent
  \/ FlushWrite
  \/ FlushSetHash
  \/ FlushCache
  \/ Rename
  \/ Clear
  \/ UpdateConfigStart
  \/ UpdateConfigContent
  \/ UpdateConfigWrite
  \/ UpdateConfigClear
  \/ UpdateConfigRename
  \/ UpdateConfigSwap
  \/ Fail
  \/ Restart

Spec == Init /\ [][Next]_vars

\* ------------------------- mutations that do not wait for a flush

\* the awaits of a dirty flush(): mkdirp and getContentAndHash (the model's
\* "flush_content"), writeContents, setHash, inMemState.flush()
FlushAwaits == {"flush_content", "flush_write", "flush_hash", "flush_cache"}

\* a set, remove or updateStateFromChanges that is called and runs to its
\* end while a flush() is suspended at one of its awaits: the cache becomes
\* c, then setDirty()
MutateDuringFlush(c, call) ==
  /\ pc \in FlushAwaits
  /\ ops < MaxOps /\ ops' = ops + 1 /\ op' = call
  /\ prev' = [op |-> op, err |-> err]
  /\ cache' = c
  /\ cacheDirty' = stateData.cacheDirty
  /\ loaded' = TRUE
  /\ dirty' = TRUE
  /\ contentsAndHash' = Undefined
  /\ log' = log \o LoadEvents \o <<CacheEv(call)>>
  /\ calculated' = NotCalculated
  /\ UNCHANGED <<durable, cacheStore, currentFilePrefix, currentContentProvider,
                 staticFilesPrefix, pc, newProvider, contents, err,
                 poolVars, codecVars, filterVars, handlerVars>>

SetDuringFlush ==
  \E id \in ElemIds, v \in Vals :
    MutateDuringFlush(inMemSet(stateData.cache, id, v), "set")

RemoveDuringFlush ==
  \E id \in ElemIds : MutateDuringFlush(inMemRemove(stateData.cache, id), "remove")

UpdateStateFromChangesDuringFlush ==
  \E id \in ElemIds, v \in {"v2", "none"}, unmerged \in BOOLEAN :
    MutateDuringFlush(inMemUpdateStateFromChanges(stateData.cache, id, v, unmerged),
                      "updateStateFromChanges")

InterleavedNext ==
  \/ Next
  \/ SetDuringFlush
  \/ RemoveDuringFlush
  \/ UpdateStateFromChangesDuringFlush

\* callers that do not await a flush() before they mutate the state
InterleavedSpec == Init /\ [][InterleavedNext]_vars

\* ------------------------------------- the location cache pool: actions

\* Total number of pool.get calls one behaviour makes.
MaxGets == 4

\* the pool.get calls made so far
PoolGets ==
  LET RECURSIVE Sum(_)
      Sum(S) == IF S = {} THEN 0
                ELSE LET l == CHOOSE x \in S : TRUE
                     IN counters[l].LocationCacheCreated + counters[l].LocationCacheReuse
                        + Sum(S \ {l})
  IN Sum(Locations)
\* mutant: a get that creates a location cache whether or not one exists
poolGet_NeverShares(location, capacityHint) ==
  [entry |-> [resource |-> resources + 1, capacity |-> capacityHint, refcount |-> 1],
   event |-> "LocationCacheCreated"]
\* mutant: a get of a location with an entry hands out a new location cache
poolGet_FreshResource(location, capacityHint) ==
  IF location \in DOMAIN pool
  THEN [entry |-> [pool[location] EXCEPT !.refcount = @ + 1, !.resource = resources + 1],
        event |-> "LocationCacheReuse"]
  ELSE [entry |-> [resource |-> resources + 1, capacity |-> capacityHint, refcount |-> 1],
        event |-> "LocationCacheCreated"]
\* mutant: a get of a location with an entry loses its refcount increment
poolGet_LostIncrement(location, capacityHint) ==
  IF location \in DOMAIN pool
  THEN [entry |-> pool[location], event |-> "LocationCacheReuse"]
  ELSE [entry |-> [resource |-> resources + 1, capacity |-> capacityHint, refcount |-> 1],
        event |-> "LocationCacheCreated"]

\* the entry and the handle of pool.get(location, capacityHint): an entry
\* of the location is shared and counted once more; without one a location
\* cache of that capacity is created
poolGet(location, capacityHint) ==
  IF location \in DOMAIN pool
  THEN [entry |-> [pool[location] EXCEPT !.refcount = @ + 1],
        event |-> "LocationCacheReuse"]
  ELSE [entry |-> [resource |-> resources + 1, capacity |-> capacityHint, refcount |-> 1],
        event |-> "LocationCacheCreated"]

\* caller calls pool.get(location, capacityHint) and keeps the handle
PoolGet ==
  \E caller \in Callers, location \in Locations :
    LET got == poolGet(location, CapacityHint)
    IN /\ PoolGets < MaxGets
       /\ pool' = Override(pool, [l \in {location} |-> got.entry])
       /\ counters' = [counters EXCEPT ![location][got.event] = @ + 1]
       /\ resources' = IF got.event = "LocationCacheCreated" THEN resources + 1 ELSE resources
       /\ held' = [held EXCEPT ![caller] =
                     Append(@, [location |-> location, resource |-> got.entry.resource])]
       /\ calls' = [calls EXCEPT ![caller][location].get = @ + 1]
       /\ UNCHANGED <<stateVars, codecVars, filterVars, handlerVars>>
\* mutant: the release of the last reference keeps the entry, at refcount 0
poolRelease_KeepsEntry(handle) ==
  IF handle.location \notin DOMAIN pool
  THEN pool
  ELSE [pool EXCEPT ![handle.location].refcount = @ - 1]

\* the pool after pool.release(cache): the entry is counted once less, and
\* removed when no reference is left
poolRelease(handle) ==
  IF handle.location \notin DOMAIN pool THEN pool
  ELSE IF pool[handle.location].refcount > 1
       THEN [pool EXCEPT ![handle.location].refcount = @ - 1]
       ELSE Restrict(pool, DOMAIN pool \ {handle.location})

\* caller calls pool.release(cache) with a handle it holds
PoolRelease ==
  \E caller \in Callers :
    \E i \in 1..Len(held[caller]) :
      /\ pool' = poolRelease(held[caller][i])
      /\ held' = [held EXCEPT ![caller] =
                    SubSeq(@, 1, i - 1) \o SubSeq(@, i + 1, Len(@))]
      /\ calls' = [calls EXCEPT ![caller][held[caller][i].location].release = @ + 1]
      /\ UNCHANGED <<counters, resources>>
      /\ UNCHANGED <<stateVars, codecVars, filterVars, handlerVars>>

PoolNext == PoolGet \/ PoolRelease

\* a pool in a test: beforeEach creates it, over a workspace without state
PoolInit == Init /\ cacheStore = EmptyCache /\ durable["file"]["p"] = Empty

PoolSpec == PoolInit /\ [][PoolNext]_vars

\* ------------------------------------------------- the stream codec

\* the in-memory states a run serializes: any elements, any path index
CodecStates ==
  {[elements |-> e, pathIndex |-> [i \in ids |-> PathOf(i)]] :
     e \in UNION {[E -> Vals] : E \in SUBSET ElemIds}, ids \in SUBSET ElemIds}

\* lines a state file can carry after its path index: none, the version
\* line of the old format, lines no format knows
LegacyTails ==
  {<<>>, <<JsonString("0.1.2")>>,
   <<JsonString("0.1.2"), JsonArray(<<<<"a.x", "v2">>>>)>>,
   <<JsonArray(<<<<"b.y", "v2">>, <<"a.x", PathOf("a.x")>>>>), JsonString("c")>>}

\* the texts of text in older formats: the account line as written or as a
\* dictionary of account names, and one of the tails
LegacyTexts(text) ==
  {<<text[1], acct, text[3]>> \o tail :
     acct \in {text[2]} \cup {JsonObject(K) : K \in SUBSET Accounts \ {{}}},
     tail \in LegacyTails}

\* a state is handed to the serializer
CodecInput ==
  /\ codec.pc = "idle"
  /\ \E st \in CodecStates : codec' = [codec EXCEPT !.pc = "input", !.state = st]
  /\ UNCHANGED <<stateVars, poolVars, filterVars, handlerVars>>

\* createStateTextPerAccount and the gzip of calculateContentAndHash
CodecSerialize ==
  /\ codec.pc = "input"
  /\ LET cs == calculateContentAndHash(codec.state)
         files == [a \in DOMAIN cs |-> cs[a].content]
     IN codec' = [codec EXCEPT !.pc = "serialized", !.streams = files, !.read = files]
  /\ UNCHANGED <<stateVars, poolVars, filterVars, handlerVars>>

\* the file of one account is one an older version wrote
CodecLegacy ==
  /\ codec.pc = "serialized"
  /\ \E a \in DOMAIN codec.read \ codec.legacy :
       \E text \in LegacyTexts(Gunzip(codec.read[a])) :
         codec' = [codec EXCEPT !.read = [@ EXCEPT ![a] = Gzip(text)],
                                !.legacy = @ \cup {a}]
  /\ UNCHANGED <<stateVars, poolVars, filterVars, handlerVars>>

\* parseStateContent(contentStreams)
CodecParse ==
  /\ codec.pc = "serialized"
  /\ codec' = [codec EXCEPT !.pc = "parsed", !.res = parseStateContent(codec.read)]
  /\ UNCHANGED <<stateVars, poolVars, filterVars, handlerVars>>

CodecNext == CodecInput \/ CodecSerialize \/ CodecLegacy \/ CodecParse

\* a codec run starts over a workspace without state
CodecInit == PoolInit

CodecSpec == CodecInit /\ [][CodecNext]_vars

\* ------------------------------------- the history_tracking filter

\* the fields an object type can have, in the order of Object.values(type.fields)
FieldNames == {"SomeField", "OtherField"}
FieldOrder == <<"SomeField", "OtherField">>

\* an annotation that is true, false, or not there
AnnotationValues == {"true", "false", "undefined"}
ToAnnotation(b) == IF b THEN "true" ELSE "false"

\* type.annotations[HISTORY_TRACKED_FIELDS]: undefined, or the names it holds
NoTrackedFields == [def |-> FALSE, names |-> {}]
TrackedFields(names) == [def |-> TRUE, names |-> names]

isObjectType(elem) == elem.kind = "ObjectType"
isField(elem) == elem.kind = "Field"
isCustomObject(type) == type.custom
isFieldOfCustomObject(field) == field.parent.custom
apiName(field) == field.name

\* the changes of toChange({ before, after })
isAdditionOrModificationChange(change) == "after" \in DOMAIN change.data
isModificationChange(change) == DOMAIN change.data = {"before", "after"}
getChangeData(change) ==
  IF "after" \in DOMAIN change.data THEN change.data.after ELSE change.data.before
isObjectTypeChange(change) == isObjectType(getChangeData(change))

\* type.fields[name], a Field whose parent is the type
FieldOf(type, name) ==
  [kind |-> "Field", name |-> name, trackHistory |-> type.fields[name].trackHistory,
   parent |-> [custom |-> type.custom, historyTrackedFields |-> type.historyTrackedFields]]
\* mutant: an object counts as tracked whenever enableHistory is annotated
isHistoryTrackingEnabled_AnyValue(type) ==
  type.enableHistory # "undefined" \/ type.historyTrackedFields.def

isHistoryTrackingEnabled(type) ==
  type.enableHistory = "true" \/ type.historyTrackedFields.def
\* mutant: the fields keep their trackHistory annotation
centralizeHistoryTrackingAnnotations_KeepsFields(customObject) ==
  IF ~isHistoryTrackingEnabled(customObject)
  THEN [customObject EXCEPT !.enableHistory = "undefined"]
  ELSE [customObject EXCEPT
          !.historyTrackedFields =
             TrackedFields({f \in DOMAIN customObject.fields :
                              customObject.fields[f].trackHistory = "true"}),
          !.enableHistory = "undefined"]

centralizeHistoryTrackingAnnotations(customObject) ==
  IF ~isHistoryTrackingEnabled(customObject)
  THEN [customObject EXCEPT !.enableHistory = "undefined"]
  ELSE [customObject EXCEPT
          !.historyTrackedFields =
             TrackedFields({f \in DOMAIN customObject.fields :
                              customObject.fields[f].trackHistory = "true"}),
          !.fields = [f \in DOMAIN @ |-> [@[f] EXCEPT !.trackHistory = "undefined"]],
          !.enableHistory = "undefined"]

\* onFetch: the elements after the hook
onFetch(elements) ==
  [k \in 1..Len(elements) |->
     IF isObjectType(elements[k]) /\ isCustomObject(elements[k])
     THEN centralizeHistoryTrackingAnnotations(elements[k])
     ELSE elements[k]]

\* onDeploy: the changes it looks at
isFieldChange(change) == isField(getChangeData(change))
isRemovalOrModificationChange(change) == "before" \in DOMAIN change.data
isCustomObjectTypeChange(change) ==
  /\ isAdditionOrModificationChange(change)
  /\ isObjectTypeChange(change)
  /\ isCustomObject(getChangeData(change))
isCustomObjectFieldChange(change) ==
  isFieldChange(change) /\ isFieldOfCustomObject(getChangeData(change))

\* mutant: two elements are never taken for equal
isEqual_Never(before, after) == FALSE

\* change.data.before.isEqual(change.data.after): two object types are
\* equal when their annotations and their fields are; two fields are equal
\* when their ids and their annotations are, whatever their parents carry
isEqual(before, after) ==
  IF isField(before) /\ isField(after)
  THEN before.name = after.name /\ before.trackHistory = after.trackHistory
  ELSE before = after

\* onDeploy: the changes after the hook
onDeploy(changes) ==
  LET types == [k \in 1..Len(changes) |->
                  IF isCustomObjectTypeChange(changes[k])
                  THEN [changes[k] EXCEPT
                          !.data.after = centralizeHistoryTrackingAnnotations(@)]
                  ELSE changes[k]]
      afters == [k \in 1..Len(types) |->
                   IF isAdditionOrModificationChange(types[k])
                      /\ isCustomObjectFieldChange(types[k])
                   THEN [types[k] EXCEPT !.data.after.trackHistory = "undefined"]
                   ELSE types[k]]
      befores == [k \in 1..Len(afters) |->
                    IF isRemovalOrModificationChange(afters[k])
                       /\ isCustomObjectFieldChange(afters[k])
                    THEN [afters[k] EXCEPT !.data.before.trackHistory = "undefined"]
                    ELSE afters[k]]
      unchangedType(c) == /\ isModificationChange(c)
                          /\ isCustomObjectTypeChange(c)
                          /\ isEqual(c.data.before, c.data.after)
      unchangedField(c) == /\ isModificationChange(c)
                           /\ isCustomObjectFieldChange(c)
                           /\ isEqual(c.data.before, c.data.after)
  IN SelectSeq(SelectSeq(befores, LAMBDA c : ~unchangedType(c)),
               LAMBDA c : ~unchangedField(c))

\* preDeploy: trackedFields(type)
trackedFields(type) ==
  IF type.historyTrackedFields.def THEN type.historyTrackedFields.names ELSE {}
\* mutant: only the parent's historyTrackedFields makes a field tracked
isHistoryTrackedField_ListedOnly(field) ==
  apiName(field) \in trackedFields(field.parent)

\* preDeploy: isHistoryTrackedField(field)
isHistoryTrackedField(field) ==
  field.trackHistory = "true" \/ apiName(field) \in trackedFields(field.parent)

\* the positions of the changes preDeploy works on
changedCustomObjectFields(changes) ==
  {k \in 1..Len(changes) :
     /\ isAdditionOrModificationChange(changes[k])
     /\ isField(getChangeData(changes[k]))
     /\ isFieldOfCustomObject(getChangeData(changes[k]))}
objectTypeChanges(changes) ==
  {k \in 1..Len(changes) :
     isAdditionOrModificationChange(changes[k]) /\ isObjectTypeChange(changes[k])}
\* mutant: the change of a field is created the same way in both directions
createFieldChangeIfApplicable_AlwaysAdded(field, objectTypeChange) ==
  LET trackedBefore == apiName(field) \in trackedFields(objectTypeChange.data.before)
      trackedAfter == apiName(field) \in trackedFields(objectTypeChange.data.after)
  IN IF trackedBefore = trackedAfter THEN <<>>
     ELSE <<[data |-> [before |-> [field EXCEPT !.trackHistory = "false"],
                       after |-> [field EXCEPT !.trackHistory = "true"]]]>>

\* the change of a field whose place in historyTrackedFields changed, if any
createFieldChangeIfApplicable(field, objectTypeChange) ==
  LET trackedBefore == apiName(field) \in trackedFields(objectTypeChange.data.before)
      trackedAfter == apiName(field) \in trackedFields(objectTypeChange.data.after)
  IN IF trackedBefore = trackedAfter THEN <<>>
     ELSE IF ~trackedBefore /\ trackedAfter
          THEN <<[data |-> [before |-> [field EXCEPT !.trackHistory = "false"],
                            after |-> [field EXCEPT !.trackHistory = "true"]]]>>
          ELSE <<[data |-> [before |-> [field EXCEPT !.trackHistory = "true"],
                            after |-> [field EXCEPT !.trackHistory = "false"]]]>>

RECURSIVE fieldChanges(_, _, _)
\* preDeploy step 3, for one object type change: the changes of its fields
\* called names that are not among the changed fields, in order
fieldChanges(change, names, changedFieldNames) ==
  IF names = <<>> THEN <<>>
  ELSE LET type == getChangeData(change)
           name == Head(names)
       IN (IF name \notin DOMAIN type.fields \/ name \in changedFieldNames
           THEN <<>>
           ELSE createFieldChangeIfApplicable(FieldOf(type, name), change))
          \o fieldChanges(change, Tail(names), changedFieldNames)

RECURSIVE flatMapChanges(_, _)
\* preDeploy step 3: the field changes of the modified object types, in order
flatMapChanges(changes, changedFieldNames) ==
  IF changes = <<>> THEN <<>>
  ELSE LET change == Head(changes)
       IN (IF /\ isAdditionOrModificationChange(change)
              /\ isObjectTypeChange(change)
              /\ isModificationChange(change)
           THEN fieldChanges(change, FieldOrder, changedFieldNames)
           ELSE <<>>)
          \o flatMapChanges(Tail(changes), changedFieldNames)

\* preDeploy step 3: the changes of the fields that have none of their own
additionalChanges(changes) ==
  flatMapChanges(changes,
                 {getChangeData(changes[k]).name : k \in changedCustomObjectFields(changes)})

\* the object types and fields the hooks are called with
ObjectTypes(customs, enabled, fieldValues) ==
  {[kind |-> "ObjectType", custom |-> c, enableHistory |-> e, historyTrackedFields |-> t,
    fields |-> fs] :
     c \in customs, e \in enabled,
     t \in {NoTrackedFields} \cup {TrackedFields(S) : S \in SUBSET FieldNames},
     fs \in UNION {[F -> [trackHistory : fieldValues]] : F \in SUBSET FieldNames}}
Fields(parents) ==
  {[kind |-> "Field", name |-> n, trackHistory |-> v, parent |-> p] :
     n \in FieldNames, v \in AnnotationValues, p \in parents}
Parents ==
  {[custom |-> c, historyTrackedFields |-> t] :
     c \in BOOLEAN, t \in {NoTrackedFields} \cup {TrackedFields(S) : S \in SUBSET FieldNames}}

\* an instance, which onFetch passes over
SomeInstance == [kind |-> "InstanceElement"]

\* the element lists of a fetch: one object type, or an object type after
\* an instance and another object type
FetchedElements ==
  {<<t>> : t \in ObjectTypes(BOOLEAN, AnnotationValues, AnnotationValues)}
  \cup {<<SomeInstance, t, u>> :
          t \in ObjectTypes({TRUE}, {"true"}, {"true"}),
          u \in ObjectTypes({TRUE}, {"false"}, {"false"})}

\* the changes of toChange for the elements after and before
ChangesOf(afters, befores) ==
  {[data |-> [after |-> a]] : a \in afters}
  \cup {[data |-> [before |-> b, after |-> a]] : b \in befores, a \in afters}

\* the object type changes of a deployment
TypeChanges ==
  ChangesOf(ObjectTypes({TRUE}, AnnotationValues, {"undefined", "true"}),
            ObjectTypes({TRUE}, {"undefined"}, {"undefined"}))

\* the changes of an object type that is not a custom object
StandardTypeChanges ==
  ChangesOf(ObjectTypes({FALSE}, {"undefined"}, {"undefined"}),
            ObjectTypes({FALSE}, {"undefined"}, {"undefined"}))

\* the removal of an element
RemovalOf(elem) == [data |-> [before |-> elem]]

\* the addition of the field called name of the type of an object type
\* change, annotated trackHistory as given
FieldAdditionOf(change, name, trackHistory) ==
  [data |-> [after |-> [FieldOf(change.data.after, name) EXCEPT !.trackHistory = trackHistory]]]

\* preDeploy is called with the changes
PreDeployCalled(changes) ==
  filter' = [filter EXCEPT !.pc = "step1", !.hook = "preDeploy",
                           !.input = changes, !.changes = changes]

\* a hook is called: onFetch with the elements of a fetch; preDeploy with
\* the changes of a deployment, which are a change of an object type (a
\* custom object or not), a change of a field, or a change of an object type
\* and of one of its fields
FilterInput ==
  /\ filter.pc = "idle"
  /\ \/ \E elements \in FetchedElements :
          filter' = [filter EXCEPT !.pc = "onFetch", !.hook = "onFetch",
                                   !.input = elements, !.elements = elements]
     \/ \E c \in TypeChanges : PreDeployCalled(<<c>>)
     \/ \E t \in ObjectTypes({TRUE}, {"undefined"}, {"undefined"}) :
          PreDeployCalled(<<RemovalOf(t)>>)
     \/ \E b \in Fields(Parents) :
          \/ PreDeployCalled(<<RemovalOf(b)>>)
          \/ \E a \in Fields(Parents) :
               \/ PreDeployCalled(<<[data |-> [after |-> a]]>>)
               \/ PreDeployCalled(<<[data |-> [before |-> b, after |-> a]]>>)
     \/ \E c \in TypeChanges :
          \E n \in DOMAIN c.data.after.fields, v \in AnnotationValues :
            PreDeployCalled(<<c, FieldAdditionOf(c, n, v)>>)
     \/ \E c \in StandardTypeChanges : PreDeployCalled(<<c>>)
  /\ UNCHANGED <<stateVars, poolVars, codecVars, handlerVars>>

\* onFetch: async elements => { ... forEach(centralizeHistoryTrackingAnnotations) }
OnFetch ==
  /\ filter.pc = "onFetch"
  /\ filter' = [filter EXCEPT !.pc = "done", !.elements = onFetch(@)]
  /\ UNCHANGED <<stateVars, poolVars, codecVars, handlerVars>>

\* preDeploy 1: enableHistory of the object types; the writes of trackHistory
\* to their fields are started and not awaited
PreDeployStep1 ==
  /\ filter.pc = "step1"
  /\ LET changes == filter.changes
         types == objectTypeChanges(changes)
     IN filter' = [filter EXCEPT
          !.pc = "step2",
          !.changes = [k \in 1..Len(changes) |->
             IF k \in types
             THEN [changes[k] EXCEPT !.data.after.enableHistory =
                     ToAnnotation(isHistoryTrackingEnabled(changes[k].data.after))]
             ELSE changes[k]],
          !.pending = {<<k, f>> \in types \X FieldNames :
                         /\ f \in DOMAIN changes[k].data.after.fields
                         /\ isHistoryTrackedField(FieldOf(changes[k].data.after, f))}]
  /\ UNCHANGED <<stateVars, poolVars, codecVars, handlerVars>>

\* a write preDeploy 1 started: field.annotations[TRACK_HISTORY] = true
PreDeployFieldOfType ==
  /\ filter.pc \in {"step2", "step3", "step4", "done"}
  /\ \E w \in filter.pending :
       filter' = [filter EXCEPT
          !.changes[w[1]].data.after.fields[w[2]].trackHistory = "true",
          !.pending = @ \ {w}]
  /\ UNCHANGED <<stateVars, poolVars, codecVars, handlerVars>>

\* preDeploy 2: trackHistory of the changed fields of custom objects
PreDeployStep2 ==
  /\ filter.pc = "step2"
  /\ LET changes == filter.changes
     IN filter' = [filter EXCEPT
          !.pc = "step3",
          !.changes = [k \in 1..Len(changes) |->
             IF k \in changedCustomObjectFields(changes)
             THEN [changes[k] EXCEPT !.data.after.trackHistory =
                     ToAnnotation(isHistoryTrackedField(changes[k].data.after))]
             ELSE changes[k]]]
  /\ UNCHANGED <<stateVars, poolVars, codecVars, handlerVars>>

\* preDeploy 3: the changes of the fields whose tracking changed
PreDeployStep3 ==
  /\ filter.pc = "step3"
  /\ filter' = [filter EXCEPT !.pc = "step4",
                              !.additionalChanges = additionalChanges(filter.changes)]
  /\ UNCHANGED <<stateVars, poolVars, codecVars, handlerVars>>
\* mutant: historyTrackedFields stays on the object types
PreDeployStep4_KeepsTrackedFields ==
  /\ filter.pc = "step4"
  /\ filter' = [filter EXCEPT !.pc = "done",
                              !.changes = filter.changes \o filter.additionalChanges]
  /\ UNCHANGED <<stateVars, poolVars, codecVars, handlerVars>>

\* preDeploy 4: historyTrackedFields is deleted from the object types, and
\* changes.push(...additionalChanges)
PreDeployStep4 ==
  /\ filter.pc = "step4"
  /\ LET changes == filter.changes
     IN filter' = [filter EXCEPT
          !.pc = "done",
          !.changes = [k \in 1..Len(changes) |->
             IF k \in objectTypeChanges(changes)
             THEN [changes[k] EXCEPT !.data.after.historyTrackedFields = NoTrackedFields]
             ELSE changes[k]] \o filter.additionalChanges]
  /\ UNCHANGED <<stateVars, poolVars, codecVars, handlerVars>>
\* onDeploy, called after the deployment with the changes preDeploy left;
\* the writes preDeploy started have been made by then
OnDeploy ==
  /\ filter.pc = "done" /\ filter.hook = "preDeploy"
  /\ filter.pending = {}
  /\ filter' = [filter EXCEPT !.hook = "onDeploy", !.changes = onDeploy(@)]
  /\ UNCHANGED <<stateVars, poolVars, codecVars, handlerVars>>

FilterNext ==
  \/ FilterInput
  \/ OnFetch
  \/ PreDeployStep1
  \/ PreDeployFieldOfType
  \/ PreDeployStep2
  \/ PreDeployStep3
  \/ PreDeployStep4
  \/ OnDeploy

\* a filter is created over a workspace without state
FilterInit == PoolInit

FilterSpec == FilterInit /\ [][FilterNext]_vars

\* ------------------------------------ the profiles weak references handler

\* enum section, in the order of the keys of sectionsReferenceParams; the
\* sections modelled are one with an enabled flag and one target, one with a
\* source field per target, and one whose entries yield several targets
section == <<"classAccesses", "fieldPermissions", "layoutAssignments">>

FIELD_NO_ACCESS == "NoAccess"

PROFILE_METADATA_TYPE == "Profile"

PERMISSION_SET_METADATA_TYPE == "PermissionSet"

\* Object.entries: the keys of an object in insertion order
KeyOrder == <<"classAccesses", "fieldPermissions", "layoutAssignments", "A", "Acc", "Name">>

entriesOf(object) == SelectSeq(KeyOrder, LAMBDA k : k \in DOMAIN object)

\* Array.prototype.flat over a sequence of sequences
RECURSIVE flat(_)
flat(seqs) == IF seqs = <<>> THEN <<>> ELSE Head(seqs) \o flat(Tail(seqs))

\* getMetadataElementName: the first API_NAME_SEPARATOR becomes _ and the name
\* is nacl-cased (letters and digits are kept, any other character becomes _
\* and is recorded after @)
getMetadataElementName(fullName) ==
  CASE fullName = "Acc-L" -> "Acc_L@b"
    [] fullName = "Acc-M" -> "Acc_M@b"
    [] fullName = "Acc.R" -> "Acc_R"
    [] OTHER -> fullName

\* ElemID.getFullName() without the adapter name: the parts of the id
InstanceID(typeName, name) == <<typeName, "instance", name>>

\* collections.array.makeArray of an optional source field
makeArray(sourceField) == IF sourceField = "undefined" THEN <<>> ELSE <<sourceField>>

isEnabled(sectionEntry) ==
  "enabled" \in DOMAIN sectionEntry /\ sectionEntry.enabled = TRUE

isAnyAccessEnabledForField(fieldPermissionsSectionEntry) ==
  \E f \in DOMAIN fieldPermissionsSectionEntry :
     fieldPermissionsSectionEntry[f] # FIELD_NO_ACCESS

\* referenceToInstance(fieldName, targetType): no target when the field of
\* the entry is not a string
referenceToInstance(fieldName, targetType, sectionEntry) ==
  IF fieldName \notin DOMAIN sectionEntry THEN <<>>
  ELSE <<[target |-> InstanceID(targetType, getMetadataElementName(sectionEntry[fieldName])),
          sourceField |-> "undefined"]>>

\* referencesToFields: one target per field of the entry with an access
referencesToFields(sectionEntry, sectionEntryKey) ==
  LET names == SelectSeq(entriesOf(sectionEntry),
                         LAMBDA f : sectionEntry[f] # FIELD_NO_ACCESS)
  IN [i \in 1..Len(names) |->
        [target |-> <<sectionEntryKey, "field", getMetadataElementName(names[i])>>,
         sourceField |-> names[i]]]

\* layoutReferences: the layout of the first assignment, then the record type
\* of every assignment that names one; nothing when the first assignment
\* names no layout
layoutReferences(sectionEntry) ==
  IF Len(sectionEntry) = 0 \/ "layout" \notin DOMAIN sectionEntry[1] THEN <<>>
  ELSE LET layoutRef == [target |-> InstanceID("Layout",
                                      getMetadataElementName(sectionEntry[1].layout)),
                         sourceField |-> "undefined"]
           withRecordType == SelectSeq(sectionEntry, LAMBDA a : "recordType" \in DOMAIN a)
           recordTypeRefs == [i \in 1..Len(withRecordType) |->
              [target |-> InstanceID("RecordType",
                            getMetadataElementName(withRecordType[i].recordType)),
               sourceField |-> "undefined"]]
       IN <<layoutRef>> \o recordTypeRefs

\* sectionsReferenceParams[sectionName].filter (default: every entry)
sectionFilter(sectionName, sectionEntry) ==
  CASE sectionName = "classAccesses" -> isEnabled(sectionEntry)
    [] sectionName = "fieldPermissions" -> isAnyAccessEnabledForField(sectionEntry)
    [] OTHER -> TRUE

\* sectionsReferenceParams[sectionName].targetsGetter
targetsGetter(sectionName, sectionEntry, sectionEntryKey) ==
  CASE sectionName = "classAccesses" ->
         referenceToInstance("apexClass", "ApexClass", sectionEntry)
    [] sectionName = "fieldPermissions" ->
         referencesToFields(sectionEntry, sectionEntryKey)
    [] OTHER -> layoutReferences(sectionEntry)

\* mapSectionEntries, before f is applied: one item per target of every
\* entry of the section that passes the filter; a section that is absent
\* yields nothing
mapSectionEntries(profileOrPermissionSet, sectionName) ==
  IF sectionName \notin DOMAIN profileOrPermissionSet.value THEN <<>>
  ELSE LET sectionValue == profileOrPermissionSet.value[sectionName]
           keys == SelectSeq(entriesOf(sectionValue),
                             LAMBDA k : sectionFilter(sectionName, sectionValue[k]))
       IN flat([i \in 1..Len(keys) |->
            LET targets == targetsGetter(sectionName, sectionValue[keys[i]], keys[i])
            IN [j \in 1..Len(targets) |->
                  [sectionName |-> sectionName, sectionEntryKey |-> keys[i],
                   target |-> targets[j].target,
                   sourceField |-> targets[j].sourceField]]])

mapProfileOrPermissionSetSections(profileOrPermissionSet) ==
  flat([i \in 1..Len(section) |-> mapSectionEntries(profileOrPermissionSet, section[i])])

\* the path of an entry inside the value of its element: the parts that
\* join('.') puts together and _.has / _.omit take apart again (the keys
\* of the sections are nacl-cased names, which hold no dot)
EntryPath(item) ==
  <<item.sectionName, item.sectionEntryKey>> \o makeArray(item.sourceField)

referencesFromProfileOrPermissionSet(profileOrPermissionSet) ==
  LET items == mapProfileOrPermissionSetSections(profileOrPermissionSet)
  IN [i \in 1..Len(items) |->
        [source |-> [elemID |-> profileOrPermissionSet.elemID, path |-> EntryPath(items[i])],
         target |-> items[i].target,
         type |-> "weak"]]

isInstanceElement(element) == element.elemID.idType = "instance"

filterProfilesAndPermissionSets(elements) ==
  SelectSeq(elements, LAMBDA e :
     /\ isInstanceElement(e)
     /\ e.elemID.typeName \in {PROFILE_METADATA_TYPE, PERMISSION_SET_METADATA_TYPE})

findWeakReferences(elements) ==
  LET profilesAndPermissionSets == filterProfilesAndPermissionSets(elements)
  IN flat([i \in 1..Len(profilesAndPermissionSets) |->
             referencesFromProfileOrPermissionSet(profilesAndPermissionSets[i])])

\* _.fromPairs: of the pairs with one key the last one stays
fromPairs(pairs) ==
  [k \in {pairs[i][1] : i \in DOMAIN pairs} |->
     pairs[CHOOSE i \in DOMAIN pairs :
             /\ pairs[i][1] = k
             /\ \A j \in DOMAIN pairs : pairs[j][1] = k => j <= i][2]]

profileOrPermissionSetEntriesTargets(profileOrPermissionSet) ==
  LET items == mapProfileOrPermissionSetSections(profileOrPermissionSet)
  IN fromPairs([i \in 1..Len(items) |-> <<EntryPath(items[i]), items[i].target>>])

\* _.merge({}, ...dictionaries) of dictionaries of ElemIDs: an ElemID is no
\* plain object, so the value of a later dictionary replaces the earlier one
RECURSIVE merge(_, _)
merge(object, sources) ==
  IF sources = <<>> THEN object
  ELSE LET source == Head(sources)
       IN merge([k \in DOMAIN object \cup DOMAIN source |->
                   IF k \in DOMAIN source THEN source[k] ELSE object[k]],
                Tail(sources))

\* _.has(object, path)
RECURSIVE has(_, _)
has(object, path) ==
  \/ path = <<>>
  \/ /\ Head(path) \in DOMAIN object
     /\ has(object[Head(path)], Tail(path))

\* _.unset(object, path): the last part is deleted from its parent, when the
\* parent is there
RECURSIVE unset(_, _)
unset(object, path) ==
  IF Head(path) \notin DOMAIN object THEN object
  ELSE IF Len(path) = 1 THEN [k \in DOMAIN object \ {Head(path)} |-> object[k]]
  ELSE [object EXCEPT ![Head(path)] = unset(@, Tail(path))]

\* _.omit(object, paths)
RECURSIVE omit(_, _)
omit(object, paths) ==
  IF paths = {} THEN object
  ELSE LET path == CHOOSE p \in paths : TRUE
       IN omit(unset(object, path), paths \ {path})

\* an empty dictionary
NoTargets == [k \in {} |-> <<>>]

\* removeWeakReferences({ elementsSource })(elements); elementsSource is the
\* set of the full names elementsSource.list() yields
removeWeakReferences(elementsSource, elements) ==
  LET profilesAndPermissionSets == filterProfilesAndPermissionSets(elements)
      entriesTargets == merge(NoTargets,
         [i \in 1..Len(profilesAndPermissionSets) |->
            profileOrPermissionSetEntriesTargets(profilesAndPermissionSets[i])])
      elementNames == elementsSource
      brokenReferenceFields ==
         {field \in DOMAIN entriesTargets : entriesTargets[field] \notin elementNames}
      profilesWithBrokenReferences == SelectSeq(profilesAndPermissionSets,
         LAMBDA p : \E field \in brokenReferenceFields : has(p.value, field))
  IN [fixedElements |-> [i \in 1..Len(profilesWithBrokenReferences) |->
         [profilesWithBrokenReferences[i] EXCEPT
            !.value = omit(@, brokenReferenceFields)]],
      errors |-> [i \in 1..Len(profilesWithBrokenReferences) |->
         [elemID |-> profilesWithBrokenReferences[i].elemID,
          severity |-> "Info",
          fields |-> Cardinality({field \in brokenReferenceFields :
                        has(profilesWithBrokenReferences[i].value, field)})]]]

\* --- the handler: inputs

\* an entry of a section, or none: a sequence of at most one entry
ClassAccessEntries == {<<>>} \cup {<<[apexClass |-> "A", enabled |-> b]>> : b \in BOOLEAN}

FieldPermissionEntries == {<<>>} \cup {<<[Name |-> a]>> : a \in {"ReadWrite", FIELD_NO_ACCESS}}

\* layout assignments of one object: a layout, another layout, a layout for
\* a record type, and an assignment that names no layout
LayoutAssignmentEntries ==
  {<<>>, << <<[layout |-> "Acc-L"]>> >>, << <<[layout |-> "Acc-M"]>> >>,
   << <<[layout |-> "Acc-L", recordType |-> "Acc.R"]>> >>,
   << <<[recordType |-> "Acc.R"]>> >>}

\* the value of a profile or permission set with these entries
ValueOf(c, f, l) ==
  [s \in {"classAccesses" : x \in DOMAIN c} \cup {"fieldPermissions" : x \in DOMAIN f}
         \cup {"layoutAssignments" : x \in DOMAIN l} |->
     CASE s = "classAccesses" -> [k \in {"A"} |-> c[1]]
       [] s = "fieldPermissions" -> [k \in {"Acc"} |-> f[1]]
       [] OTHER -> [k \in {"Acc"} |-> l[1]]]

Values ==
  {ValueOf(c, f, l) : c \in ClassAccessEntries, f \in FieldPermissionEntries,
                      l \in LayoutAssignmentEntries}

\* the elements given: a profile, alone or followed by a permission set or
\* by an instance of another type
OtherElements ==
  {[elemID |-> [typeName |-> t, idType |-> "instance", name |-> "E2"], value |-> v] :
     t \in {PERMISSION_SET_METADATA_TYPE, "ApexClass"}, v \in Values}

ElementLists ==
  LET firsts == {[elemID |-> [typeName |-> PROFILE_METADATA_TYPE, idType |-> "instance",
                              name |-> "E1"], value |-> v] : v \in Values}
  IN {<<e>> : e \in firsts} \cup {<<e, o>> : e \in firsts, o \in OtherElements}

\* the full names the elements source can list
TargetNames ==
  {InstanceID("ApexClass", "A"), InstanceID("Layout", "Acc_L@b"),
   InstanceID("Layout", "Acc_M@b"), InstanceID("RecordType", "Acc_R"),
   <<"Acc", "field", "Name">>}

\* --- the handler: actions

\* removeWeakReferences is called with elements over an elements source
HandlerInput ==
  /\ handler.pc = "idle"
  /\ \E elements \in ElementLists, elementsSource \in SUBSET TargetNames :
       handler' = [handler EXCEPT !.pc = "called", !.elements = elements,
                                  !.elementsSource = elementsSource]
  /\ UNCHANGED <<stateVars, poolVars, codecVars, filterVars>>

\* the call returns fixedElements and errors
RemoveWeakReferences ==
  /\ handler.pc = "called"
  /\ LET res == removeWeakReferences(handler.elementsSource, handler.elements)
     IN handler' = [handler EXCEPT !.pc = "done",
                                   !.fixedElements = res.fixedElements,
                                   !.errors = res.errors]
  /\ UNCHANGED <<stateVars, poolVars, codecVars, filterVars>>

HandlerNext == HandlerInput \/ RemoveWeakReferences

\* the handler is used over a workspace without state
HandlerInit == PoolInit

HandlerSpec == HandlerInit /\ [][HandlerNext]_vars

\* ------------------------------------------------------------- claims

\* the state files under the current prefix of the current provider
StateFiles == durable[currentContentProvider][currentFilePrefix]
StateFilesHash == getHash(durable, currentContentProvider, currentFilePrefix)

\* the hash the cache records, the MD5 of the JSON empty list standing for
\* a cache that records none
RecordedHash == IF cache.hash = NoHash THEN getHashFromHashes({}) ELSE cache.hash

\* the calls of the current / last operation, by name
Called(call) == \E i \in 1..Len(log) : log[i].call = call

\* the entries of a map, and the entries the lines of state files hold
MapEntries(m) == {<<i, m[i]>> : i \in DOMAIN m}
FileElements(files) ==
  UNION {{Gunzip(files[n])[1].array[k] : k \in 1..Len(Gunzip(files[n])[1].array)} : n \in DOMAIN files}
FilePaths(files) ==
  UNION {{Gunzip(files[n])[3].array[k] : k \in 1..Len(Gunzip(files[n])[3].array)} : n \in DOMAIN files}
FileAccounts(files) ==
  UNION {IF isPlainObject(Gunzip(files[n])[2]) THEN Gunzip(files[n])[2].object
         ELSE {Gunzip(files[n])[2].string} : n \in DOMAIN files}

\* C1 (as claimed): whenever the state is loaded, no operation is in flight
\* and dirty is false, the hash the cache records (the MD5 of the empty list
\* when it records none) is the hash the current provider reports for the
\* state files under the current prefix.
C1_FreshHashIsDurableHash ==
  (loaded /\ pc = "idle" /\ ~dirty) => RecordedHash = StateFilesHash

\* a step that is a reader's first access and finds the cache's hash
\* different from / equal to the provider's
FirstAccess == op' = "get" /\ ops' = ops + 1 /\ ~loaded /\ loaded'
StaleFirstAccess == FirstAccess /\ RecordedHash # StateFilesHash
MatchingFirstAccess == FirstAccess /\ RecordedHash = StateFilesHash

\* what the load of a stale cache does, dirty aside
Reparsed ==
  /\ MapEntries(cache'.elements) = FileElements(StateFiles)
  /\ MapEntries(cache'.pathIndex) = FilePaths(StateFiles)
  /\ cache'.accounts = FileAccounts(StateFiles)
  /\ cache'.hash = StateFilesHash
  /\ cacheDirty'
  /\ durable' = durable

\* C2 (as claimed): a first access that finds a different hash replaces the
\* cache's elements, path index and accounts by the parsed state files and
\* records the durable hash; afterwards cacheDirty is true, dirty is false
\* and the durable content is unchanged.
C2_StaleLoadLeavesDirtyFalse == [][StaleFirstAccess => (Reparsed /\ ~dirty')]_vars

\* C2 (amended): as claimed, except that dirty is left as it was: it is
\* false afterwards unless a rename() before the first access had set it.
C2_StaleLoadReparses == [][StaleFirstAccess => (Reparsed /\ dirty' = dirty)]_vars

\* C2 witness: a first access has reparsed state files that hold an element
C2_Witness ==
  /\ op = "get" /\ loaded /\ cacheDirty /\ ~dirty /\ Called("readContents")
  /\ DOMAIN cache.elements # {}
  /\ cache.hash = StateFilesHash /\ cache.hash # cacheStore.hash

Call(names) == op' \in names /\ ops' = ops + 1

\* C4: set, remove and updateStateFromChanges change only the in-memory
\* cache, set dirty and discard the memoized contents; they call neither
\* writeContents nor clear nor rename, and leave the durable content, the
\* persisted cache, the current prefix and the current provider unchanged.
C4_MutationsTouchOnlyTheCache ==
  [][Call({"set", "remove", "updateStateFromChanges"}) =>
       /\ dirty'
       /\ contentsAndHash' = Undefined
       /\ ~Called("writeContents")' /\ ~Called("clear")' /\ ~Called("rename")'
       /\ UNCHANGED <<durable, cacheStore, currentFilePrefix, currentContentProvider,
                      staticFilesPrefix>>]_vars

\* C4 witness: a mutation changed the loaded cache of a state that has
\* durable content, and the memoized contents are gone
C4_Witness ==
  /\ op \in {"set", "remove", "updateStateFromChanges"}
  /\ dirty /\ contentsAndHash = Undefined
  /\ StateFiles # Empty
  /\ MapEntries(cache.elements) # FileElements(StateFiles)

\* C5: calculateHash() with dirty false changes nothing (no hash, no flag,
\* no contents computed, no call); with dirty true, when it returns, the
\* cache records the combination of the per-account content hashes of the
\* in-memory state, dirty is still true and nothing was written.
C5_CalculateHashOnlyWhenDirty ==
  [][Call({"calculateHash"}) =>
       /\ ~dirty =>
            /\ log' = <<>>
            /\ UNCHANGED <<durable, cacheStore, cache, loaded, dirty, cacheDirty,
                           contentsAndHash, currentFilePrefix, currentContentProvider>>
       /\ (dirty /\ err' = "ok") =>
            /\ cache'.hash =
                 getHashFromHashes(HashesOf(calculateContentAndHash(cache')))
            /\ dirty'
            /\ ~Called("writeContents")'
            /\ UNCHANGED <<durable, cacheStore>>]_vars

\* C5 witness: calculateHash() of a dirty state with an element recorded a
\* hash that differs from the durable one
C5_Witness ==
  /\ op = "calculateHash" /\ err = "ok" /\ dirty /\ Called("setHash")
  /\ DOMAIN cache.elements # {}
  /\ cache.hash # StateFilesHash

\* C6: a calculateHash() that returns, after an earlier one with no set,
\* remove, updateStateFromChanges, rename or clear in between, leaves the
\* digest the earlier one left, and writes no durable content.
C6_HashStable ==
  [][(Call({"calculateHash"}) /\ err' = "ok") =>
       /\ calculated.n > 0 => cache'.hash = calculated.h
       /\ durable' = durable]_vars

\* C6 witness: a second calculateHash() of a dirty state returned
C6_Witness ==
  /\ op = "calculateHash" /\ err = "ok" /\ dirty
  /\ calculated.n = 2 /\ cache.hash = calculated.h /\ cache.hash # cacheStore.hash
  /\ DOMAIN cache.elements # {}

\* C7: flush() with dirty false writes no durable content and leaves the
\* recorded hash; with cacheDirty true, when it returns, the cache is
\* persisted and cacheDirty is false; with cacheDirty false it does nothing.
C7_CleanFlush ==
  [][(Call({"flush"}) /\ ~dirty) =>
       /\ ~Called("writeContents")'
       /\ pc' = "idle"
       /\ UNCHANGED <<durable, cache, dirty, contentsAndHash>>
       /\ (cacheDirty /\ err' = "ok") => (cacheStore' = cache /\ ~cacheDirty')
       /\ ~cacheDirty => (log' = <<>> /\ UNCHANGED <<cacheStore, cacheDirty, loaded>>)]_vars

\* C7 witness: a flush() that was only cacheDirty persisted a reparsed cache
C7_Witness ==
  /\ op = "flush" /\ err = "ok" /\ pc = "idle" /\ ~dirty /\ ~cacheDirty
  /\ log = <<CacheEv("flush")>>
  /\ cacheStore = cache /\ DOMAIN cache.elements # {}

\* contents cs are the files of their accounts under prefix of provider
WrittenTo(provider, prefix, cs) ==
  \A a \in DOMAIN cs :
    a \in DOMAIN durable[provider][prefix] /\ durable[provider][prefix][a] = cs[a].content

\* the names of the logged calls among those of names, in order
CallsAmong(names) ==
  LET sel == SelectSeq(log, LAMBDA e : e.call \in names)
  IN [k \in 1..Len(sel) |-> sel[k].call]

\* the flush() issued last took the dirty path
DirtyFlush == op = "flush" /\ Called("mkdirp")

\* C8: a dirty flush() first writes the contents through the current
\* provider under the current prefix, then records the combined hash of
\* exactly these contents, then persists the cache, then resets dirty; when
\* it has returned dirty is false and the recorded hash is the combined hash
\* of the written contents, which hold the elements of the in-memory state.
C8_DirtyFlushOrder ==
  DirtyFlush =>
    /\ pc \in {"flush_content", "flush_write"} =>
         dirty /\ CallsAmong({"writeContents", "setHash", "flush"}) = <<>>
    /\ pc = "flush_hash" =>
         /\ dirty
         /\ WrittenTo(currentContentProvider, currentFilePrefix, contents)
         /\ CallsAmong({"writeContents", "setHash", "flush"}) = <<"writeContents">>
    /\ pc = "flush_cache" =>
         /\ dirty
         /\ WrittenTo(currentContentProvider, currentFilePrefix, contents)
         /\ cache.hash = getHashFromHashes(HashesOf(contents))
         /\ CallsAmong({"writeContents", "setHash", "flush"}) = <<"writeContents", "setHash">>
    /\ (pc = "idle" /\ err = "ok") =>
         /\ ~dirty
         /\ cacheStore = cache
         /\ contentsAndHash.st = "resolved"
         /\ WrittenTo(currentContentProvider, currentFilePrefix, contentsAndHash.val)
         /\ cache.hash = getHashFromHashes(HashesOf(contentsAndHash.val))
         /\ \A id \in DOMAIN cache.elements :
              /\ Adapter(id) \in DOMAIN contentsAndHash.val
              /\ <<id, cache.elements[id]>> \in FileElements(StateFiles)
         /\ CallsAmong({"writeContents", "setHash", "flush"}) =
              <<"writeContents", "setHash", "flush">>
         /\ \E i \in 1..Len(log) :
              log[i] = Ev("writeContents", currentContentProvider, currentFilePrefix)

\* C8 witness: a dirty flush() of a state with an element has returned
C8_Witness ==
  /\ DirtyFlush /\ pc = "idle" /\ err = "ok" /\ ~dirty
  /\ DOMAIN cache.elements # {}
  /\ cache.hash = StateFilesHash

\* the dirty flush() issued last ended before it had persisted the cache
DirtyFlushEndedEarly ==
  DirtyFlush /\ pc = "idle" /\ log[Len(log)] # CacheEv("flush")

\* C9: a dirty flush() that ends at a failing step (computing the contents,
\* writeContents, setHash or persisting the cache) has thrown and leaves
\* dirty true, so that the next flush() takes the dirty path.
C9_FailedFlushStaysDirty ==
  DirtyFlushEndedEarly =>
    /\ err = "error"
    /\ dirty
    /\ ops < MaxOps =>
         /\ ENABLED (FlushStart /\ pc' = "flush_content")
         /\ ~ENABLED (FlushStart /\ pc' = "idle")

\* C9 witness: a dirty flush() failed after it had written the contents
C9_Witness ==
  /\ DirtyFlushEndedEarly /\ err = "error" /\ dirty
  /\ Called("writeContents") /\ ~Called("setHash")
  /\ StateFiles # Empty

\* the provider calls of updateConfig, in the order of the code
UpdateConfigCalls == {"writeContents", "clear", "rename", "swap"}

\* C10: in updateConfig the new provider's writeContents under the
\* temporary name has completed when the old provider's clear starts, that
\* clear has completed when the new provider's rename of the temporary name
\* starts, and currentContentProvider is replaced by the new provider only
\* after that rename has succeeded.
C10_UpdateConfigOrder ==
  [][/\ pc \in {"upd_content", "upd_write"} => CallsAmong(UpdateConfigCalls) = <<>>
     /\ pc = "upd_clear" =>
          /\ CallsAmong(UpdateConfigCalls) = <<"writeContents">>
          /\ WrittenTo(newProvider, TempPrefix(currentFilePrefix), contents)
     /\ pc = "upd_rename" =>
          /\ CallsAmong(UpdateConfigCalls) = <<"writeContents", "clear">>
          /\ StateFiles = Empty
          /\ WrittenTo(newProvider, TempPrefix(currentFilePrefix), contents)
     /\ pc = "upd_swap" =>
          /\ CallsAmong(UpdateConfigCalls) = <<"writeContents", "clear", "rename">>
          /\ WrittenTo(newProvider, currentFilePrefix, contents)
          /\ durable[newProvider][TempPrefix(currentFilePrefix)] = Empty
     /\ currentContentProvider' # currentContentProvider =>
          pc = "upd_swap" /\ currentContentProvider' = newProvider
     /\ (op = "updateConfig" /\ pc # "idle" /\ pc' = "idle" /\ err' = "ok") =>
          /\ pc = "upd_swap"
          /\ currentContentProvider' = newProvider
          /\ log'[Len(log')].call = "swap"]_vars

\* C10 witness: an updateConfig from the file provider to the s3 provider
\* has returned, with content moved
C10_Witness ==
  /\ op = "updateConfig" /\ pc = "idle" /\ err = "ok" /\ Called("swap")
  /\ currentContentProvider = "s3"
  /\ durable["s3"][currentFilePrefix] # Empty
  /\ durable["file"][currentFilePrefix] = Empty

\* an updateConfig is in flight
Migrating == op = "updateConfig" /\ pc # "idle"

\* the step that ends an updateConfig to another storage without an error
Migrated ==
  pc = "upd_swap" /\ pc' = "idle" /\ err' = "ok" /\ newProvider # currentContentProvider

\* C11: no step of updateConfig changes the elements a read returns; when
\* an updateConfig from a provider A to another provider B returns without
\* an error, B holds the contents of the state under the current prefix and
\* nothing under the temporary name, A holds nothing under the current
\* prefix and B is the current provider; the writes of flush, clear and
\* rename go to the current provider only.
C11_MigrationMovesContent ==
  [][/\ (Migrating \/ (pc = "idle" /\ pc' = "upd_content")) =>
          stateData'.cache.elements = stateData.cache.elements
     /\ Migrated =>
          /\ currentContentProvider' = newProvider
          /\ contents = calculateContentAndHash(cache)
          /\ WrittenTo(newProvider, currentFilePrefix, contents)
          /\ durable' = durable
          /\ \A id \in DOMAIN cache'.elements :
               <<id, cache'.elements[id]>> \in FileElements(StateFiles')
          /\ durable'[newProvider][TempPrefix(currentFilePrefix)] = Empty
          /\ durable'[currentContentProvider][currentFilePrefix] = Empty
     /\ (pc = "flush_write" \/ Call({"clear", "rename"})) =>
          \A s \in Storages \ {currentContentProvider} : durable'[s] = durable[s]]_vars

\* C11 witness: a state with an element was migrated from file to s3 and
\* s3 holds its elements
C11_Witness ==
  /\ op = "updateConfig" /\ pc = "idle" /\ err = "ok" /\ Called("swap")
  /\ currentContentProvider = "s3"
  /\ DOMAIN cache.elements # {}
  /\ FileElements(StateFiles) = MapEntries(cache.elements)
  /\ durable["file"][currentFilePrefix] = Empty

\* a step of updateConfig up to the start of the old provider's clear, a
\* failure of the new provider's write or of that start included
BeforeClear ==
  \/ pc = "idle" /\ pc' \in {"upd_content", "idle"} /\ op' = "updateConfig" /\ ops' = ops + 1
  \/ pc \in {"upd_content", "upd_write"}
  \/ pc = "upd_clear" /\ pc' = "idle"

\* C12: up to the start of the old provider's clear, a failure there
\* included, no step of updateConfig changes the files under the current
\* prefix of the current provider, the current provider or the current
\* prefix; once the new provider's write is done both copies are present.
C12_OldContentKeptBeforeClear ==
  [][/\ BeforeClear =>
          /\ StateFiles' = StateFiles
          /\ durable'[currentContentProvider][currentFilePrefix] = StateFiles
          /\ UNCHANGED <<currentContentProvider, currentFilePrefix>>
     /\ (pc = "upd_clear" /\ pc' = "idle") =>
          /\ err' = "error"
          /\ WrittenTo(newProvider, TempPrefix(currentFilePrefix), contents)
          /\ durable' = durable]_vars

\* C12 witness: an updateConfig of a dirty state to s3 failed after the
\* write under the temporary name; the file provider still holds its files
C12_Witness ==
  /\ op = "updateConfig" /\ pc = "idle" /\ err = "error"
  /\ CallsAmong(UpdateConfigCalls) = <<"writeContents">>
  /\ currentContentProvider = "file"
  /\ StateFiles # Empty
  /\ durable["s3"][TempPrefix(currentFilePrefix)] # Empty
  /\ durable["s3"][TempPrefix(currentFilePrefix)] # StateFiles

\* C13 (as claimed): no step of updateConfig before the provider swap, a
\* failure included, changes the current provider or removes the files
\* under the current prefix of the current provider.
C13_OldContentKeptBeforeSwap ==
  [][(Migrating /\ pc # "upd_swap") =>
       /\ currentContentProvider' = currentContentProvider
       /\ StateFiles' = StateFiles]_vars

\* a configuration that names no usable backend
InvalidConfig(provider, bucket) ==
  provider \notin {"file", "s3"} \/ (provider = "s3" /\ bucket # "bucket")

\* C14: getStateContentProvider throws exactly for 's3' without a bucket
\* and for a provider other than 'file' and 's3'; an updateConfig called
\* with such a configuration throws at once: no content is computed, no
\* call reaches a provider or the cache, and the current provider, the
\* current prefix, dirty, cacheDirty, the cache and the durable content are
\* unchanged.
C14_InvalidConfigRejectedFirst ==
  [][Call({"updateConfig"}) =>
       /\ \A cfg \in StateConfigs :
            getStateContentProvider(cfg).ok =
              ~InvalidConfig(cfg.provider, IF cfg.bucket THEN "bucket" ELSE "-")
       /\ log'[1].call = "getStateContentProvider"
       /\ IF InvalidConfig(log'[1].provider, log'[1].prefix)
          THEN /\ err' = "error" /\ pc' = "idle" /\ Len(log') = 1
               /\ UNCHANGED <<durable, cacheStore, cache, loaded, dirty, cacheDirty,
                              contentsAndHash, currentFilePrefix, currentContentProvider,
                              staticFilesPrefix>>
          ELSE pc' = "upd_content" /\ newProvider' = log'[1].provider]_vars

\* C14 witness: an updateConfig to s3 without a bucket, of a dirty state
\* with durable content, was rejected
C14_Witness ==
  /\ op = "updateConfig" /\ pc = "idle" /\ err = "error"
  /\ log = <<Ev("getStateContentProvider", "s3", "-")>>
  /\ dirty /\ StateFiles # Empty

\* C15: a rename(newPrefix) that returns has renamed the static files
\* store and moved the provider's files from the current prefix to
\* newPrefix, and then set the current prefix to newPrefix and marked dirty;
\* a flush() of a dirty state takes the dirty path and writes under the
\* current prefix; a rename that throws leaves the current prefix and dirty
\* unchanged.
C15_RenameThenPrefixAndDirty ==
  [][/\ Call({"rename"}) =>
          /\ log' = <<Ev("staticFiles.rename", "static", log'[1].prefix),
                      Ev("rename", currentContentProvider, currentFilePrefix)>>
          /\ log'[1].prefix # currentFilePrefix
          /\ IF err' = "ok"
             THEN /\ currentFilePrefix' = log'[1].prefix
                  /\ staticFilesPrefix' = currentFilePrefix'
                  /\ \A n \in DOMAIN StateFiles :
                       n \in DOMAIN StateFiles' /\ StateFiles'[n] = StateFiles[n]
                  /\ durable'[currentContentProvider][currentFilePrefix] = Empty
                  /\ dirty'
                  /\ contentsAndHash' = Undefined
             ELSE /\ err' = "error"
                  /\ UNCHANGED <<currentFilePrefix, dirty, contentsAndHash>>
     /\ (Call({"flush"}) /\ dirty) => pc' = "flush_content"
     /\ (pc = "flush_write" /\ pc' = "flush_hash") =>
          /\ \A a \in DOMAIN contents : StateFiles'[a] = contents[a].content
          /\ \A s \in Storages, p \in AllPrefixes :
               (s # currentContentProvider \/ p # currentFilePrefix) =>
                 durable'[s][p] = durable[s][p]]_vars

\* C15 witness: a flush() after a rename from p to q of a state with an
\* element has written its file under q, and p holds nothing
C15_Witness ==
  /\ DirtyFlush /\ pc = "flush_hash"
  /\ currentFilePrefix = "q" /\ staticFilesPrefix = "q"
  /\ contents # Empty
  /\ WrittenTo(currentContentProvider, "q", contents)
  /\ durable[currentContentProvider]["p"] = Empty

\* the flush() issued last took the dirty path and returned, and the
\* operation before it was a rename that returned
RenamedAndFlushed ==
  /\ DirtyFlush /\ pc = "idle" /\ err = "ok"
  /\ prev = [op |-> "rename", err |-> "ok"]

\* the state a new handle with an empty cache loads from the current prefix
FreshLoad == syncQuickAccessStateData(StateFiles, StateFilesHash)

\* C16 (as claimed): after rename(newPrefix) and then flush(), a fresh load
\* from the current prefix reconstructs the elements, the path index and
\* the accounts of the state, and the other prefix holds no content.
C16_RenameFlushLoadIsIdentity ==
  RenamedAndFlushed =>
    /\ FreshLoad.elements = cache.elements
    /\ FreshLoad.pathIndex = cache.pathIndex
    /\ FreshLoad.accounts = cache.accounts
    /\ \A p \in Prefixes \ {currentFilePrefix} :
         durable[currentContentProvider][p] = Empty

\* C17: a clear() returns without an error, has called the provider's
\* clear for the current prefix and inMemState.clear(), and leaves no file
\* under the current prefix of the current provider, no element, path entry
\* or account in the state, dirty true and no memoized contents; so does a
\* clear() that follows a clear().
C17_ClearEmptiesProviderAndCache ==
  [][Call({"clear"}) =>
       /\ err' = "ok"
       /\ StateFiles' = Empty
       /\ cache'.elements = Empty /\ cache'.pathIndex = Empty /\ cache'.accounts = {}
       /\ dirty'
       /\ contentsAndHash' = Undefined
       /\ log'[1] = Ev("clear", currentContentProvider, currentFilePrefix)
       /\ log'[Len(log')] = CacheEv("clear")
       /\ UNCHANGED <<currentContentProvider, currentFilePrefix>>
       /\ \A s \in Storages, p \in AllPrefixes :
            (s # currentContentProvider \/ p # currentFilePrefix) =>
              durable'[s][p] = durable[s][p]]_vars

\* C17 witness: a second clear() in a row returned; the first one had
\* cleared a state with an element
C17_Witness ==
  /\ op = "clear" /\ err = "ok" /\ pc = "idle"
  /\ prev = [op |-> "clear", err |-> "ok"]
  /\ StateFiles = Empty /\ cache.elements = Empty /\ dirty
  /\ cacheStore.elements # Empty

\* ------------------------------------- claims: the location cache pool

\* the handles of a location that callers hold
HeldCount(location) ==
  LET RECURSIVE Sum(_)
      Sum(S) == IF S = {} THEN 0
                ELSE LET c == CHOOSE x \in S : TRUE
                     IN Len(SelectSeq(held[c], LAMBDA h : h.location = location))
                        + Sum(S \ {c})
  IN Sum(Callers)

\* the events counted for a location
Created(location) == counters[location].LocationCacheCreated
Reuse(location) == counters[location].LocationCacheReuse

\* C18: a location acquired N >= 1 times and never released has counted
\* one 'created' and N - 1 'reuse' events; a get of a location of which no
\* handle is outstanding counts one more 'created' event and no 'reuse'.
C18_PoolEvents ==
  [][\A l \in Locations :
       /\ (HeldCount(l)' >= 1 /\ Created(l)' + Reuse(l)' = HeldCount(l)') =>
            (Created(l)' = 1 /\ Reuse(l)' = HeldCount(l)' - 1)
       /\ (HeldCount(l) = 0 /\ HeldCount(l)' = 1) =>
            (Created(l)' = Created(l) + 1 /\ Reuse(l)' = Reuse(l))]_vars

\* C18 witness: a location acquired twice, released twice and acquired
\* again has counted two 'created' events and one 'reuse'
C18_Witness ==
  /\ Created("SomeLocation") = 2 /\ Reuse("SomeLocation") = 1
  /\ HeldCount("SomeLocation") = 1

\* a step leaves the entry, the counters and the handles of a location alone
Untouched(location) ==
  /\ (location \in DOMAIN pool) = (location \in DOMAIN pool')
  /\ location \in DOMAIN pool => pool'[location] = pool[location]
  /\ counters'[location] = counters[location]
  /\ HeldCount(location)' = HeldCount(location)

\* C19: every outstanding handle is the resource of the one entry of its
\* location; a get of a location with an entry returns the resource of that
\* entry, and the handle it returns carries the requested location; a get
\* or release changes the entry, refcount and counters of one location only.
C19_OneResourcePerLocation ==
  [][/\ \A c \in Callers : \A i \in 1..Len(held'[c]) :
          /\ held'[c][i].location \in DOMAIN pool'
          /\ held'[c][i].resource = pool'[held'[c][i].location].resource
     /\ \E l \in Locations :
          /\ \A o \in Locations \ {l} : Untouched(o)
          /\ \A c \in Callers :
               Len(held'[c]) > Len(held[c]) =>
                 LET h == held'[c][Len(held'[c])]
                 IN /\ h.location = l
                    /\ counters'[l] # counters[l]
                    /\ l \in DOMAIN pool =>
                         /\ h.resource = pool[l].resource
                         /\ pool'[l].resource = pool[l].resource]_vars

\* C19 witness: two callers hold the same resource of one location while
\* the other location has a resource of its own
C19_Witness ==
  /\ \E i \in 1..Len(held["c1"]), j \in 1..Len(held["c2"]) :
       /\ held["c1"][i].location = "SomeLocation"
       /\ held["c2"][j] = held["c1"][i]
  /\ "SomeOtherLocation" \in DOMAIN pool
  /\ pool["SomeOtherLocation"].resource # pool["SomeLocation"].resource
  /\ pool["SomeLocation"].refcount = 2

\* C20: after every get and release of handles obtained and not yet
\* released, the refcount of a location is the number of its gets minus the
\* number of its releases since its entry was created, the pool has an
\* entry for the location exactly when that number is at least 1, and the
\* entry is removed exactly by the release that brings the number to zero.
C20_RefcountIsGetsMinusReleases ==
  [][\A l \in Locations :
       /\ (l \in DOMAIN pool') = (HeldCount(l)' >= 1)
       /\ l \in DOMAIN pool' => pool'[l].refcount = HeldCount(l)'
       /\ (l \in DOMAIN pool /\ l \notin DOMAIN pool') =
            (HeldCount(l) = 1 /\ HeldCount(l)' = 0)]_vars

\* C20 witness: the entry of a location was removed by the release of its
\* last reference and created again, while the other location is held twice
C20_Witness ==
  /\ Created("SomeLocation") = 2
  /\ Reuse("SomeLocation") = 0
  /\ "SomeLocation" \in DOMAIN pool
  /\ pool["SomeLocation"].refcount = 1
  /\ HeldCount("SomeLocation") = 1
  /\ "SomeOtherLocation" \in DOMAIN pool
  /\ pool["SomeOtherLocation"].refcount = 2

\* the refcount of a location, 0 when the pool has no entry for it
Refcount(location) == IF location \in DOMAIN pool THEN pool[location].refcount ELSE 0

\* the gets minus the releases a caller has issued for a location
Outstanding(caller, location) ==
  calls[caller][location].get - calls[caller][location].release

\* C21: whatever the interleaving of the gets and releases of the callers
\* on a location, its refcount is the number of gets minus the number of
\* releases of all callers, each caller holds as many handles as its own
\* gets minus releases, and every handle a caller holds is the resource of
\* an entry that is still in the pool.
C21_NoLostRefcountUpdate ==
  /\ \A l \in Locations :
       /\ Refcount(l) = Outstanding("c1", l) + Outstanding("c2", l)
       /\ \A c \in Callers :
            Len(SelectSeq(held[c], LAMBDA h : h.location = l)) = Outstanding(c, l)
  /\ \A c \in Callers : \A i \in 1..Len(held[c]) :
       /\ held[c][i].location \in DOMAIN pool
       /\ pool[held[c][i].location].resource = held[c][i].resource

\* C21 witness: two callers got the same location, one of them released
\* its handle while the other held the entry, and the other holds two handles
C21_Witness ==
  /\ calls["c1"]["SomeLocation"] = [get |-> 1, release |-> 1]
  /\ calls["c2"]["SomeLocation"] = [get |-> 2, release |-> 0]
  /\ Created("SomeLocation") = 1
  /\ Refcount("SomeLocation") = 2

\* --------------------------------------------- claims: the stream codec

\* a parse of the streams as the serializer wrote them has returned
RoundTrip == codec.pc = "parsed" /\ codec.legacy = {}

\* the accounts the elements of the serialized state span
SpannedAccounts == {Adapter(i) : i \in DOMAIN codec.state.elements}

\* C22 (as claimed): for a state whose elements span at least one account,
\* parsing the streams createStateTextPerAccount wrote yields the same
\* elements, each once, the account names the elements span, and a path
\* index that maps every identifier as the path index serialized did.
C22_CodecRoundTrip ==
  (RoundTrip /\ SpannedAccounts # {}) =>
    /\ SeqToMap(codec.res.elements) = codec.state.elements
    /\ Len(codec.res.elements) = Cardinality(DOMAIN codec.state.elements)
    /\ codec.res.accounts = SpannedAccounts
    /\ SeqToMap(codec.res.pathIndices) = codec.state.pathIndex

\* the files without the lines after their path index
FirstThreeLines(files) == [n \in DOMAIN files |-> Gzip(SubSeq(Gunzip(files[n]), 1, 3))]

\* C23: an account line holding an object contributes each of its keys as
\* an account name; the version line of the old format and every other line
\* after the path index change nothing: the parse returns, with the
\* elements and path entries of the first and the third lines and the
\* account names of the second lines.
C23_LegacyLinesTolerated ==
  codec.pc = "parsed" =>
    /\ codec.res = parseStateContent(FirstThreeLines(codec.read))
    /\ codec.res.elements = parseStateContent(codec.streams).elements
    /\ codec.res.pathIndices = parseStateContent(codec.streams).pathIndices
    /\ codec.res.accounts = FileAccounts(codec.read)
    /\ \A n \in DOMAIN codec.read :
         isPlainObject(Gunzip(codec.read[n])[2]) =>
           Gunzip(codec.read[n])[2].object \subseteq codec.res.accounts

\* C23 witness: a parsed file had a dictionary of two accounts on its
\* account line, a version line and a further line
C23_Witness ==
  /\ codec.pc = "parsed"
  /\ codec.res.elements # <<>>
  /\ \E n \in codec.legacy :
       /\ Len(Gunzip(codec.read[n])) = 5
       /\ Gunzip(codec.read[n])[5] = JsonArray(<<<<"a.x", "v2">>>>)
       /\ Gunzip(codec.read[n])[2] = JsonObject({"a", "b"})
       /\ codec.res.accounts = {"a", "b"}
       /\ SpannedAccounts = {n}

\* ------------------------------ claims: the history_tracking filter

\* onFetch has returned
Fetched == filter.hook = "onFetch" /\ filter.pc = "done"

\* the positions of the custom object types among the fetched elements
CustomObjects ==
  {k \in 1..Len(filter.input) :
     isObjectType(filter.input[k]) /\ isCustomObject(filter.input[k])}

C25_FetchLeavesUntrackedObject ==
  Fetched =>
    \A k \in CustomObjects :
      (filter.input[k].enableHistory # "true"
       /\ ~filter.input[k].historyTrackedFields.def) =>
        /\ filter.elements[k] = [filter.input[k] EXCEPT !.enableHistory = "undefined"]
        /\ filter.elements[k].historyTrackedFields = NoTrackedFields
        /\ filter.elements[k].fields = filter.input[k].fields

\* C25 witness: an object fetched with enableHistory false and a field
\* annotated trackHistory false
C25_Witness ==
  /\ Fetched
  /\ Len(filter.input) = 1
  /\ filter.input[1].custom
  /\ filter.input[1].enableHistory = "false"
  /\ ~filter.input[1].historyTrackedFields.def
  /\ "SomeField" \in DOMAIN filter.input[1].fields
  /\ filter.input[1].fields["SomeField"].trackHistory = "false"
  /\ filter.elements[1].enableHistory = "undefined"

\* preDeploy has returned
PreDeployed == filter.hook = "preDeploy" /\ filter.pc = "done"

\* C26 (as claimed): after preDeploy, the type of every addition or
\* modification change of an object type has enableHistory true if it
\* carried a historyTrackedFields annotation and false if it carried none,
\* and has no historyTrackedFields annotation.
C26_EnableHistoryFromTrackedFields ==
  PreDeployed =>
    \A k \in objectTypeChanges(filter.input) :
      /\ filter.changes[k].data.after.enableHistory =
           ToAnnotation(filter.input[k].data.after.historyTrackedFields.def)
      /\ ~filter.changes[k].data.after.historyTrackedFields.def

\* C26 (amended): after preDeploy, the type of every addition or
\* modification change of an object type has enableHistory true if it
\* carried a historyTrackedFields annotation or an enableHistory annotation
\* that was true, and false otherwise, and has no historyTrackedFields
\* annotation.
C26_EnableHistoryFromAnnotations ==
  PreDeployed =>
    \A k \in objectTypeChanges(filter.input) :
      /\ filter.changes[k].data.after.enableHistory =
           ToAnnotation(\/ filter.input[k].data.after.historyTrackedFields.def
                        \/ filter.input[k].data.after.enableHistory = "true")
      /\ ~filter.changes[k].data.after.historyTrackedFields.def

\* C26 witness: a modified object type that carried enableHistory true and
\* no historyTrackedFields has been through preDeploy
C26_Witness ==
  /\ PreDeployed
  /\ isModificationChange(filter.input[1])
  /\ isObjectTypeChange(filter.input[1])
  /\ filter.input[1].data.after.enableHistory = "true"
  /\ ~filter.input[1].data.after.historyTrackedFields.def
  /\ filter.input[1].data.before.historyTrackedFields = TrackedFields({})
  /\ filter.changes[1].data.after.enableHistory = "true"

\* the field of the addition or modification change at position k, as it
\* was given to preDeploy and as it is now
FieldGiven(k) == filter.input[k].data.after
FieldNow(k) == filter.changes[k].data.after

\* C27 (as claimed): after preDeploy, an added or modified field of a
\* custom object whose parent has a historyTrackedFields annotation has
\* trackHistory true if the parent's historyTrackedFields lists it and
\* false otherwise.
C27_TrackHistoryFromParent ==
  PreDeployed =>
    \A k \in changedCustomObjectFields(filter.input) :
      FieldGiven(k).parent.historyTrackedFields.def =>
        FieldNow(k).trackHistory =
          ToAnnotation(FieldGiven(k).name \in FieldGiven(k).parent.historyTrackedFields.names)

\* C27 (amended): after preDeploy, an added or modified field of a custom
\* object whose parent has a historyTrackedFields annotation has
\* trackHistory true if the parent's historyTrackedFields lists it or the
\* field carried trackHistory true, and false otherwise.
C27_TrackHistoryFromParentOrField ==
  PreDeployed =>
    \A k \in changedCustomObjectFields(filter.input) :
      FieldGiven(k).parent.historyTrackedFields.def =>
        FieldNow(k).trackHistory =
          ToAnnotation(\/ FieldGiven(k).name \in FieldGiven(k).parent.historyTrackedFields.names
                       \/ FieldGiven(k).trackHistory = "true")

\* C27 witness: a modified field that carried trackHistory true, of a
\* parent whose historyTrackedFields lists another field only
C27_Witness ==
  /\ PreDeployed
  /\ Len(filter.input) = 1
  /\ isModificationChange(filter.input[1])
  /\ isField(FieldGiven(1))
  /\ FieldGiven(1).parent.custom
  /\ FieldGiven(1).name = "SomeField"
  /\ FieldGiven(1).trackHistory = "true"
  /\ FieldGiven(1).parent.historyTrackedFields = TrackedFields({"OtherField"})
  /\ FieldNow(1).trackHistory = "true"

\* C28 (as claimed): after preDeploy, an added or modified field that
\* carried no trackHistory annotation and whose parent has no
\* historyTrackedFields annotation is as it was: it has no trackHistory
\* annotation.
C28_UntrackedParentFieldUntouched ==
  PreDeployed =>
    \A k \in 1..Len(filter.input) :
      (/\ isAdditionOrModificationChange(filter.input[k])
       /\ isField(FieldGiven(k))
       /\ ~FieldGiven(k).parent.historyTrackedFields.def
       /\ FieldGiven(k).trackHistory = "undefined") =>
        /\ FieldNow(k) = FieldGiven(k)
        /\ FieldNow(k).trackHistory = "undefined"

\* the changes preDeploy appended to the list it was given
Appended == SubSeq(filter.changes, Len(filter.input) + 1, Len(filter.changes))

\* the appended changes of the field called name
AppendedFor(name) == SelectSeq(Appended, LAMBDA c : getChangeData(c).name = name)

\* the fields that have a change of their own in the list preDeploy was given
OwnChanges ==
  {getChangeData(filter.input[k]).name :
     k \in {j \in 1..Len(filter.input) : isField(getChangeData(filter.input[j]))}}

\* the positions of the modification changes of object types given to preDeploy
ModifiedTypes ==
  {k \in objectTypeChanges(filter.input) : isModificationChange(filter.input[k])}

\* C29: for a modification change of an object type, a field that is in
\* the type before and after, has no change of its own and whose
\* membership in historyTrackedFields differs between before and after gets
\* exactly one appended change, a field modification from trackHistory
\* false to true when it became tracked and from true to false when it
\* stopped being tracked; a field that stopped being tracked and is not in
\* the type after gets no appended change.
C29_DerivedFieldChanges ==
  PreDeployed =>
    \A k \in ModifiedTypes :
      LET typeBefore == filter.input[k].data.before
          typeAfter == filter.input[k].data.after
      IN \A f \in FieldNames :
           LET trackedBefore == f \in trackedFields(typeBefore)
               trackedAfter == f \in trackedFields(typeAfter)
           IN /\ (/\ f \in DOMAIN typeBefore.fields
                  /\ f \in DOMAIN typeAfter.fields
                  /\ f \notin OwnChanges
                  /\ trackedBefore # trackedAfter) =>
                   /\ Len(AppendedFor(f)) = 1
                   /\ isModificationChange(AppendedFor(f)[1])
                   /\ isField(AppendedFor(f)[1].data.before)
                   /\ isField(AppendedFor(f)[1].data.after)
                   /\ AppendedFor(f)[1].data.before.trackHistory = ToAnnotation(trackedBefore)
                   /\ AppendedFor(f)[1].data.after.trackHistory = ToAnnotation(trackedAfter)
              /\ (trackedBefore /\ ~trackedAfter /\ f \notin DOMAIN typeAfter.fields) =>
                   AppendedFor(f) = <<>>

\* C29 witness: of two fields that are in the type before and after, one
\* became tracked and the other stopped being tracked, and preDeploy
\* appended a change for each
C29_Witness ==
  /\ PreDeployed
  /\ Len(filter.input) = 1
  /\ 1 \in ModifiedTypes
  /\ DOMAIN filter.input[1].data.before.fields = FieldNames
  /\ DOMAIN filter.input[1].data.after.fields = FieldNames
  /\ trackedFields(filter.input[1].data.before) = {"OtherField"}
  /\ trackedFields(filter.input[1].data.after) = {"SomeField"}
  /\ Len(Appended) = 2
  /\ Appended[1].data.after.name = "SomeField"
  /\ Appended[1].data.after.trackHistory = "true"
  /\ Appended[2].data.before.trackHistory = "true"

\* C30 (as claimed): for a modification change of an object type whose
\* type after has a field that its historyTrackedFields lists and that the
\* type before does not have, preDeploy appends no change for that field;
\* when no other field changed its place in historyTrackedFields the change
\* list keeps its length.
C30_NoChangeForCreatedField ==
  PreDeployed =>
    \A k \in ModifiedTypes :
      LET typeBefore == filter.input[k].data.before
          typeAfter == filter.input[k].data.after
          created == {f \in DOMAIN typeAfter.fields \ DOMAIN typeBefore.fields :
                        f \in trackedFields(typeAfter)}
      IN /\ \A f \in created : AppendedFor(f) = <<>>
         /\ (/\ created # {}
             /\ \A f \in FieldNames \ created :
                  (f \in trackedFields(typeBefore)) = (f \in trackedFields(typeAfter))) =>
              Len(filter.changes) = Len(filter.input)

\* ------------------------------- claims: the memoized contents, migration

\* the contents and hashes that serializing the in-memory state gives
CurrentContents == calculateContentAndHash(cache)

\* a step that is a whole call of a mutation that returned
Mutated ==
  \/ Call({"set", "remove", "updateStateFromChanges", "clear"})
  \/ Call({"rename"}) /\ err' = "ok"

\* C31: the memoized contents are those of the in-memory state as it is,
\* a call that finds them uses them as they are, and every mutation (set,
\* remove, updateStateFromChanges, rename, clear) discards them; with no
\* mutation in between, the hash a flush() records is the hash an earlier
\* calculateHash() recorded, and it is the hash of exactly the contents the
\* flush() wrote; flush(), calculateHash() and updateConfig() use contents
\* serialized from the state as it is after the last mutation.
C31_ContentsMemoizedPerDirtyEpoch ==
  /\ [](contentsAndHash.st = "resolved" =>
          loaded /\ contentsAndHash.val = CurrentContents)
  /\ [][/\ contentsAndHash.st = "resolved" => contentsAndHash' \in {contentsAndHash, Undefined}
        /\ Mutated => contentsAndHash' = Undefined
        /\ (pc \in {"flush_content", "upd_content"} /\ pc' # "idle") =>
             contents' = contentsAndHash'.val /\ contents' = CurrentContents'
        /\ (Call({"calculateHash"}) /\ dirty /\ err' = "ok") =>
             cache'.hash = getHashFromHashes(HashesOf(CurrentContents'))
        /\ (pc = "flush_write" /\ pc' = "flush_hash") =>
             /\ contents = CurrentContents
             /\ \A a \in DOMAIN contents : StateFiles'[a] = contents[a].content
        /\ (pc = "flush_hash" /\ pc' = "flush_cache") =>
             /\ cache'.hash = getHashFromHashes(HashesOf(contents))
             /\ WrittenTo(currentContentProvider, currentFilePrefix, contents)
             /\ calculated.n > 0 => cache'.hash = calculated.h]_vars

\* C31 witness: set(), calculateHash() and flush() in a row: the flush()
\* has written the contents the calculateHash() had computed and recorded
\* the same hash
C31_Witness ==
  /\ DirtyFlush /\ pc = "idle" /\ err = "ok"
  /\ prev = [op |-> "calculateHash", err |-> "ok"]
  /\ calculated.n = 1 /\ cache.hash = calculated.h
  /\ DOMAIN cache.elements # {}
  /\ contentsAndHash = Resolved(CurrentContents)
  /\ WrittenTo(currentContentProvider, currentFilePrefix, contentsAndHash.val)

\* an updateConfig whose new provider addresses the storage of the current one
SameStorage == op = "updateConfig" /\ newProvider = currentContentProvider

\* C32: in an updateConfig whose new provider addresses the storage and the
\* names of the current provider, the old provider's clear of the current
\* prefix leaves the files written under the temporary name as they are,
\* and when the updateConfig has returned the current prefix holds the
\* contents of the in-memory state and the temporary name holds nothing.
C32_SameStorageMigrationKeepsContent ==
  [][SameStorage =>
       /\ (pc = "upd_clear" /\ pc' = "upd_rename") =>
            /\ StateFiles' = Empty
            /\ durable'[newProvider][TempPrefix(currentFilePrefix)] =
                 durable[newProvider][TempPrefix(currentFilePrefix)]
            /\ \A a \in DOMAIN contents :
                 durable'[newProvider][TempPrefix(currentFilePrefix)][a] = contents[a].content
       /\ (pc = "upd_swap" /\ pc' = "idle" /\ err' = "ok") =>
            /\ contents = CurrentContents
            /\ \A a \in DOMAIN contents : StateFiles'[a] = contents[a].content
            /\ \A id \in DOMAIN cache'.elements :
                 <<id, cache'.elements[id]>> \in FileElements(StateFiles')
            /\ durable'[newProvider][TempPrefix(currentFilePrefix)] = Empty]_vars

\* C32 witness: an updateConfig from the file provider to the file provider
\* of a state with an element that was not flushed has returned, and the
\* current prefix holds that element
C32_Witness ==
  /\ op = "updateConfig" /\ pc = "idle" /\ err = "ok" /\ Called("swap")
  /\ log[1] = Ev("getStateContentProvider", "file", "-")
  /\ currentContentProvider = "file"
  /\ dirty
  /\ cacheStore.elements # cache.elements
  /\ DOMAIN cache.elements # {}
  /\ FileElements(StateFiles) = MapEntries(cache.elements)

\* ----------------------------------- claims: interleaved operations

\* a dirty flush() has returned, and a mutation was called and returned
\* while it was suspended
MutatedDuringFlush ==
  /\ pc = "idle" /\ err = "ok"
  /\ op \in {"set", "remove", "updateStateFromChanges"}
  /\ prev = [op |-> "flush", err |-> "none"]
  /\ Called("mkdirp") /\ Called("writeContents")

\* C33 (as claimed): when a set, remove or updateStateFromChanges ran to its
\* end while a flush() was suspended at one of its awaits and both have
\* returned, dirty is true or the files the flush wrote are the contents of
\* the state with the mutation.
C33_NoMutationLost ==
  MutatedDuringFlush =>
    \/ dirty
    \/ /\ WrittenTo(currentContentProvider, currentFilePrefix, CurrentContents)
       /\ \A id \in DOMAIN cache.elements :
            <<id, cache.elements[id]>> \in FileElements(StateFiles)

\* ------------------------------------------ claims: flags and failures

\* C34 (as claimed): when a flush() has returned without an error, the
\* dirty path that persisted the cache included, cacheDirty is false; a
\* flush() that directly follows such a flush() neither writes durable
\* content nor persists the cache.
C34_FlushResetsCacheDirty ==
  /\ (op = "flush" /\ pc = "idle" /\ err = "ok") => ~cacheDirty
  /\ (op = "flush" /\ pc = "idle" /\ prev = [op |-> "flush", err |-> "ok"]) =>
       ~Called("writeContents") /\ ~Called("flush")

\* a step of an updateConfig: its call, or a step of the one in flight
UpdateConfigStep == Call({"updateConfig"}) \/ Migrating

\* what an updateConfig writes: the serialization of the in-memory state,
\* under the temporary name of the new provider
WritesCurrentContents ==
  (pc = "upd_write" /\ pc' = "upd_clear") =>
    /\ contents = CurrentContents
    /\ \A id \in DOMAIN cache.elements : Adapter(id) \in DOMAIN contents
    /\ \A a \in DOMAIN contents :
         durable'[newProvider][TempPrefix(currentFilePrefix)][a] = contents[a].content

\* C35 (as claimed): no step of updateConfig changes dirty, cacheDirty or
\* the current file prefix, and the contents it writes to the new provider
\* are the serialization of the in-memory state, mutations that were not
\* flushed included.
C35_UpdateConfigKeepsFlags ==
  [][UpdateConfigStep =>
       /\ UNCHANGED <<dirty, cacheDirty, currentFilePrefix>>
       /\ WritesCurrentContents]_vars

\* C35 (amended): as claimed, except for cacheDirty: it is unchanged unless
\* the updateConfig is the first access of a state whose cache records a
\* hash that differs from the durable one, in which case the load sets it.
C35_UpdateConfigKeepsDirtyAndPrefix ==
  [][UpdateConfigStep =>
       /\ UNCHANGED <<dirty, currentFilePrefix>>
       /\ cacheDirty' = (cacheDirty \/ (~loaded /\ loaded' /\ RecordedHash # StateFilesHash))
       /\ WritesCurrentContents]_vars

\* C35 witness: an updateConfig to s3 of a state with a mutation that was
\* not flushed has returned: dirty is still true and s3 holds the elements
\* of the in-memory state, which the persisted cache does not
C35_Witness ==
  /\ op = "updateConfig" /\ pc = "idle" /\ err = "ok" /\ Called("swap")
  /\ prev.op \in {"set", "updateStateFromChanges"}
  /\ dirty /\ currentFilePrefix = "p"
  /\ currentContentProvider = "s3"
  /\ cacheStore.elements # cache.elements
  /\ FileElements(StateFiles) = MapEntries(cache.elements)

\* C36 (as claimed): a content computation that failed is not kept: after
\* the flush(), calculateHash() or updateConfig() that it failed in, no
\* rejected result is memoized, and a flush() that follows, with or without
\* a mutation in between, computes the contents again and can succeed.
C36_FailedComputationNotRemembered ==
  /\ pc = "idle" => contentsAndHash.st # "rejected"
  /\ pc = "flush_content" => ENABLED (FlushContent /\ pc' = "flush_write")

\* the accounts the state has elements or path-index entries of
AccountsInState ==
  {Adapter(i) : i \in DOMAIN cache.elements} \cup {Adapter(i) : i \in DOMAIN cache.pathIndex}

\* C37 (as claimed): when a dirty flush() has returned, the current prefix
\* holds a content unit for every account that has elements or path-index
\* entries, and a fresh load reconstructs the account list and every
\* path-index entry of the in-memory state, those of an account without
\* elements included.
C37_FlushKeepsAccountsAndPaths ==
  (DirtyFlush /\ pc = "idle" /\ err = "ok") =>
    /\ AccountsInState \subseteq DOMAIN StateFiles
    /\ \A i \in DOMAIN cache.pathIndex :
         i \in DOMAIN FreshLoad.pathIndex /\ FreshLoad.pathIndex[i] = cache.pathIndex[i]
    /\ cache.accounts \subseteq FreshLoad.accounts

\* ----------------------- claims: the history_tracking filter, round trip

\* onDeploy has returned, after preDeploy and the deployment
Deployed == filter.hook = "onDeploy" /\ filter.pc = "done"

\* the fields of a type as given that its historyTrackedFields listed
TrackedOnType(type) == trackedFields(type) \cap DOMAIN type.fields

RoundTripType(given) ==
  IF given.historyTrackedFields.def \/ given.enableHistory = "true"
  THEN [given EXCEPT
          !.enableHistory = "undefined",
          !.historyTrackedFields =
             TrackedFields(TrackedOnType(given) \cup
                           {f \in DOMAIN given.fields : given.fields[f].trackHistory = "true"}),
          !.fields = [f \in DOMAIN @ |-> [trackHistory |-> "undefined"]]]
  ELSE [given EXCEPT !.enableHistory = "undefined"]

\* what the round trip makes of a given change
RoundTripChange(change) ==
  IF isCustomObjectTypeChange(change)
  THEN [change EXCEPT !.data.after = RoundTripType(@)]
  ELSE IF isCustomObjectFieldChange(change)
       THEN [change EXCEPT
               !.data = [side \in DOMAIN @ |-> [@[side] EXCEPT !.trackHistory = "undefined"]]]
       ELSE change

\* a given modification change of a custom object type, or of a field of a
\* custom object, that the round trip leaves without a difference
Collapses(change) ==
  /\ isModificationChange(change)
  /\ \/ /\ isCustomObjectTypeChange(change)
        /\ change.data.before = RoundTripType(change.data.after)
     \/ /\ isCustomObjectFieldChange(change)
        /\ change.data.before.name = change.data.after.name

\* the positions of the given changes that do not collapse, in order
KeptPositions ==
  SelectSeq([k \in 1..Len(filter.input) |-> k], LAMBDA k : ~Collapses(filter.input[k]))

GivenProfiles ==
  IF handler.pc = "done" THEN filterProfilesAndPermissionSets(handler.elements) ELSE <<>>

\* the element after the repair: its fixed version when fixedElements has
\* one, the element as given otherwise
FixedVersion(e) ==
  LET fixed == {i \in DOMAIN handler.fixedElements :
                  handler.fixedElements[i].elemID = e.elemID}
  IN IF fixed = {} THEN e ELSE handler.fixedElements[CHOOSE i \in fixed : TRUE]

\* the paths at which an element can hold an entry
EntryPaths ==
  {<<"classAccesses", "A">>, <<"fieldPermissions", "Acc", "Name">>,
   <<"layoutAssignments", "Acc">>}

\* the weak references of an element whose target the elements source lacks
BrokenReferences(e) ==
  LET refs == findWeakReferences(<<e>>)
  IN {refs[i] : i \in {j \in DOMAIN refs : refs[j].target \notin handler.elementsSource}}

\* the entries the repair took out of an element
RemovedEntries(e) ==
  {p \in EntryPaths : has(e.value, p) /\ ~has(FixedVersion(e).value, p)}

\* C39: removeWeakReferences removes an entry from a profile or permission
\* set only if that entry, in that same element, produces a weak reference
\* whose target is missing from the elements source
C39_RemovedOnlyOwnBrokenEntries ==
  \A i \in DOMAIN GivenProfiles :
     \A p \in RemovedEntries(GivenProfiles[i]) :
        \E r \in BrokenReferences(GivenProfiles[i]) : r.source.path = p

\* C40: after removeWeakReferences, findWeakReferences applied to the fixed
\* version of every profile or permission set given (or to the element as
\* given when it was not fixed) returns no reference whose target is
\* missing from the elements source
C40_EveryBrokenReferenceRepaired ==
  \A i \in DOMAIN GivenProfiles :
     BrokenReferences(FixedVersion(GivenProfiles[i])) = {}

====
